---- MODULE Spec2Model ----
(***************************************************************************)
(* Model of the percolator client of percdex-app:                          *)
(*   - PercolatorClient.sendTransaction   (src/lib/percolator/client.ts)   *)
(*   - the lazily populated slab cache and the read accessors (client.ts)  *)
(*   - the market-bootstrap saga createPercolatorMarket and                *)
(*     launchTokenWithPercolator (src/unnamed/part_002)                    *)
(*   - the account-table views and the transaction builders (client.ts)    *)
(*   - PositionList and FuturesPanel handlers (src/components)             *)
(*   - createFundraise (src/lib/tokenRegistry.ts)                          *)
(* Optional values (T | null, T | undefined) are sequences of length <= 1: *)
(* Null is <<>> and Some(v) is <<v>>.                                      *)
(***************************************************************************)
EXTENDS Integers, Sequences, FiniteSets, TLC

VARIABLES
    txPc,        \* position inside sendTransaction
    txCaller,    \* who awaits the current sendTransaction call
    txKind,      \* the instruction carried by the transaction being sent
    txCalls,     \* collaborator calls made by the current call, in order
    txSig,       \* local `signature` of sendTransaction
    txExec,      \* what the chain did with the submitted transaction
    txConfErr,   \* confirmation.value.err as returned by confirmTransaction
    txParsed,    \* local `parsed` (result of parseErrorFromLogs)
    txResult,    \* the TxResult the call resolved to
    chain,       \* on-chain effects of the transactions that landed
    ledger,      \* kinds of the transactions the RPC node accepted, in order
    unconfirmed, \* ledger positions whose confirmation await has not finished
    slabData,    \* PercolatorClient.slabData
    marketConfig,\* PercolatorClient.marketConfig
    chainSlab,   \* the bytes of the slab account on chain
    lastCall,    \* the last accessor call on the client and what it did
    sagaStep,    \* current step of createPercolatorMarket (0 idle, 8 returned)
    sagaPhase,   \* position inside the current step
    stepStatus,  \* per step: what became of its transaction
    stepErr,     \* per step: the error the step ended with (Null if none)
    sagaExec,    \* what the chain did with the current step's transaction
    sagaResult,  \* the value createPercolatorMarket resolved to
    chainTable,  \* bitmap and account array of the slab account on chain
    view,        \* what the last table accessor call returned, and from what
    lastBuild,   \* the last builder call on the client and what it returned
    racePc,      \* per concurrent caller: its position in its current call
    raceResp,    \* per concurrent caller: the fetchSlab response on its way
    raceBuilt,   \* per concurrent caller: what its last buildDepositTx was built from
    chainVer,    \* rewrites of the slab account seen by the concurrent callers
    cacheVer,    \* chainVer of the snapshot in the cache
    arrivedVer,  \* chainVer of the fetchSlab response that arrived last
    newestVer,   \* newest chainVer any caller has received so far
    panelUserIdx,\* FuturesPanel: state userIdx
    hasAccount,  \* FuturesPanel: state hasAccount
    status,      \* FuturesPanel: type of the status line (Null if none)
    openPc,      \* FuturesPanel: position inside handleOpenPosition
    openLog,     \* FuturesPanel: transactions the current handleOpenPosition sent
    launchPc,    \* position inside launchTokenWithPercolator
    tokenResult, \* launchTokenWithPercolator: local tokenResult
    initialPriceE6, \* launchTokenWithPercolator: local initialPriceE6
    launchResult,\* the value launchTokenWithPercolator resolved to
    fundraises,  \* rows of the table fundraises
    frPc,        \* per caller: position inside createFundraise
    frArgs,      \* per caller: arguments of its createFundraise call
    frResult     \* per caller: the Fundraise its createFundraise resolved to

sendVars == <<txPc, txCaller, txKind, txCalls, txSig, txExec, txConfErr, txParsed, txResult>>
chainVars == <<chain, ledger, unconfirmed>>
cacheVars == <<slabData, marketConfig, chainSlab, lastCall>>
sagaVars == <<sagaStep, sagaPhase, stepStatus, stepErr, sagaExec, sagaResult>>
tableVars == <<chainTable, view>>
buildVars == <<lastBuild>>
raceVars == <<racePc, raceResp, raceBuilt, chainVer, cacheVer, arrivedVer, newestVer>>
panelVars == <<panelUserIdx, hasAccount, status, openPc, openLog>>
launchVars == <<launchPc, tokenResult, initialPriceE6, launchResult>>
registryVars == <<fundraises, frPc, frArgs, frResult>>
appVars == <<panelVars, launchVars, registryVars>>
vars == <<sendVars, chainVars, cacheVars, sagaVars, tableVars, buildVars, raceVars, appVars>>

\* the logical callers that share one client instance
Callers == {1, 2}

Null == <<>>
Some(v) == <<v>>

(***************************************************************************)
(* Bounds                                                                  *)
(***************************************************************************)
\* transactions the RPC node accepts before the model stops submitting
MaxSigs == 7
\* sendTransaction calls a component makes on one client
MaxSends == 3
\* log lines of one transaction
MaxLogs == 2
\* length of the modelled slab buffer
MaxSlabLen == 3
\* slots of the account table of the modelled slab
NumSlots == 2
\* rewrites of the slab account while two callers share one client
MaxVer == 2
MaxDeposits == 2

(***************************************************************************)
(* Collaborator outcomes                                                   *)
(***************************************************************************)
\* messages of the errors thrown by the wallet / RPC collaborators;
\* `new Error()` has the empty message
ErrMsgs == {"", "rpc failed"}

\* confirmation.value.err values reported by the chain
ChainErrs == {"BlockhashNotFound", "InstructionError"}

\* JSON.stringify of a chain-reported error
JsonStringify(e) == "\"" \o e \o "\""

\* the transactions of this application
SagaKinds == <<"CreateSlab", "CreateVault", "InitMarket", "SetOracleAuthority",
               "PushOraclePrice", "CreateMatcherCtx", "InitLP">>
TxKinds == {SagaKinds[i] : i \in 1..7}

\* what a transaction needs on chain to execute without error
Requires(kind) ==
    CASE kind = "InitMarket" -> {"CreateSlab", "CreateVault"}
      [] kind = "SetOracleAuthority" -> {"InitMarket"}
      [] kind = "PushOraclePrice" -> {"InitMarket", "SetOracleAuthority"}
      [] kind = "InitLP" -> {"InitMarket"}
      [] OTHER -> {}

\* outcomes the chain can give a submitted transaction of this kind
ExecOutcomes(kind) ==
    IF Requires(kind) \subseteq chain
        THEN {Null} \cup {Some(e) : e \in ChainErrs}
        ELSE {Some(e) : e \in ChainErrs}

(***************************************************************************)
(* ErrorDecoder                                                            *)
(***************************************************************************)
\* a log line either carries the failure marker with a code, or it does not
LogLines == {[marker |-> FALSE, code |-> 0]} \cup
            {[marker |-> TRUE, code |-> c] : c \in {4, 13}}

RECURSIVE SeqsUpTo(_, _)
SeqsUpTo(S, n) ==
    IF n = 0 THEN {<<>>}
    ELSE LET shorter == SeqsUpTo(S, n - 1)
         IN shorter \cup {Append(s, x) : s \in {t \in shorter : Len(t) = n - 1}, x \in S}

ErrorName(code) ==
    CASE code = 4 -> "EngineInsufficientBalance"
      [] code = 13 -> "EngineUndercollateralized"
      [] OTHER -> "Unknown"

ErrorHint(code) ==
    CASE code = 4 -> Some("Deposit more collateral")
      [] OTHER -> Null

HexDigit(d) ==
    CASE d = 0 -> "0" [] d = 1 -> "1" [] d = 2 -> "2" [] d = 3 -> "3"
      [] d = 4 -> "4" [] d = 5 -> "5" [] d = 6 -> "6" [] d = 7 -> "7"
      [] d = 8 -> "8" [] d = 9 -> "9" [] d = 10 -> "a" [] d = 11 -> "b"
      [] d = 12 -> "c" [] d = 13 -> "d" [] d = 14 -> "e" [] OTHER -> "f"

RECURSIVE ToHex(_)
ToHex(n) == IF n < 16 THEN HexDigit(n) ELSE ToHex(n \div 16) \o HexDigit(n % 16)

\* parseErrorFromLogs: the first line with the failure marker decides
ParseErrorFromLogs(logs) ==
    LET marked == {i \in 1..Len(logs) : logs[i].marker}
    IN IF marked = {} THEN Null
       ELSE LET i == CHOOSE j \in marked : \A k \in marked : j <= k
                c == logs[i].code
            IN Some([code |-> c, name |-> ErrorName(c), hint |-> ErrorHint(c)])

(***************************************************************************)
(* PercolatorClient.sendTransaction                                        *)
(***************************************************************************)
NoResult == [signature |-> "", error |-> Null, hint |-> Null, set |-> FALSE]

TxResult(sig, err, hint) == [signature |-> sig, error |-> err, hint |-> hint, set |-> TRUE]

Sig(n) == "sig" \o ToString(n)

Called(op, ok) == Append(txCalls, [op |-> op, ok |-> ok])

\* a collaborator call that returned, with what it was given or gave back
CalledWith(op, io) == Append(txCalls, [op |-> op, ok |-> TRUE, io |-> io])

\* what getLatestBlockhash('confirmed') answers at the present height of the chain
LatestBlockhash ==
    [blockhash |-> Len(ledger), lastValidBlockHeight |-> Len(ledger) + 1]

\* the transaction as handed to wallet.signTransaction:
\*   tx.recentBlockhash = latestBlockhash.blockhash; tx.feePayer = wallet.publicKey
Prepared ==
    [wallet |-> txCaller,
     recentBlockhash |-> txCalls[1].io.blockhash,
     feePayer |-> txCaller]

\* ConfirmStrategy built from a blockhash fetched anew at confirmation time
ConfirmStrategy_Refetched ==
    [signature |-> txSig,
     blockhash |-> LatestBlockhash.blockhash,
     lastValidBlockHeight |-> LatestBlockhash.lastValidBlockHeight]

\* the first argument of confirmTransaction
ConfirmStrategy ==
    [signature |-> txSig,
     blockhash |-> txCalls[1].io.blockhash,
     lastValidBlockHeight |-> txCalls[1].io.lastValidBlockHeight]

\* CatchSend without the try/catch: the error escapes to the caller
CatchSend_Rethrow(op, msg) ==
    /\ txCalls' = Called(op, FALSE)
    /\ txPc' = "thrown"
    /\ UNCHANGED txResult

\* catch (e) { return { signature: '', error: e.message } }
CatchSend(op, msg) ==
    /\ txCalls' = Called(op, FALSE)
    /\ txResult' = TxResult("", Some(msg), Null)
    /\ txPc' = "returned"

\* a caller hands a built transaction to sendTransaction
BeginSend(caller, kind) ==
    /\ txPc' = "getLatestBlockhash"
    /\ txCaller' = caller
    /\ txKind' = kind
    /\ txCalls' = <<>>
    /\ txSig' = ""
    /\ txExec' = Null
    /\ txConfErr' = Null
    /\ txParsed' = Null
    /\ txResult' = NoResult

SendGetLatestBlockhash ==
    /\ txPc = "getLatestBlockhash"
    /\ \/ /\ txCalls' = CalledWith("getLatestBlockhash", LatestBlockhash)
          /\ txPc' = "signTransaction"
          /\ UNCHANGED txResult
       \/ \E m \in ErrMsgs : CatchSend("getLatestBlockhash", m)
    /\ UNCHANGED <<txCaller, txKind, txSig, txExec, txConfErr, txParsed>>
    /\ UNCHANGED <<chainVars, cacheVars, sagaVars>>
    /\ UNCHANGED <<tableVars, buildVars, raceVars, appVars>>

\* SendSignTransaction with the rejection of the wallet swallowed: the
\* unsigned transaction goes on to be serialized and submitted
SendSignTransaction_FailureIgnored ==
    /\ txPc = "signTransaction"
    /\ \E ok \in BOOLEAN : txCalls' = Called("signTransaction", ok)
    /\ txPc' = "serialize"
    /\ UNCHANGED <<txCaller, txKind, txSig, txExec, txConfErr, txParsed, txResult>>
    /\ UNCHANGED <<chainVars, cacheVars, sagaVars>>
    /\ UNCHANGED <<tableVars, buildVars, raceVars, appVars>>

SendSignTransaction ==
    /\ txPc = "signTransaction"
    /\ \/ /\ txCalls' = CalledWith("signTransaction", Prepared)
          /\ txPc' = "serialize"
          /\ UNCHANGED txResult
       \/ \E m \in ErrMsgs : CatchSend("signTransaction", m)
    /\ UNCHANGED <<txCaller, txKind, txSig, txExec, txConfErr, txParsed>>
    /\ UNCHANGED <<chainVars, cacheVars, sagaVars>>
    /\ UNCHANGED <<tableVars, buildVars, raceVars, appVars>>

SendSerialize ==
    /\ txPc = "serialize"
    /\ \/ /\ txCalls' = Called("serialize", TRUE)
          /\ txPc' = "sendRawTransaction"
          /\ UNCHANGED txResult
       \/ \E m \in ErrMsgs : CatchSend("serialize", m)
    /\ UNCHANGED <<txCaller, txKind, txSig, txExec, txConfErr, txParsed>>
    /\ UNCHANGED <<chainVars, cacheVars, sagaVars>>
    /\ UNCHANGED <<tableVars, buildVars, raceVars, appVars>>

\* the node accepts the transaction and the chain executes it
Submit(kind, exec) ==
    /\ ledger' = Append(ledger, kind)
    /\ unconfirmed' = unconfirmed \cup {Len(ledger) + 1}
    /\ chain' = IF exec = Null THEN chain \cup {kind} ELSE chain

\* the await of confirmTransaction for the given signature is over
ConfirmOver(n) == unconfirmed' = unconfirmed \ {n}

\* SendRawTransaction with one automatic retry of a failed submit
SendRawTransaction_Retry ==
    /\ txPc = "sendRawTransaction"
    /\ \/ /\ Len(ledger) < MaxSigs
          /\ \E exec \in ExecOutcomes(txKind) :
                /\ Submit(txKind, exec)
                /\ txExec' = exec
          /\ txSig' = Sig(Len(ledger) + 1)
          /\ txCalls' = Called("sendRawTransaction", TRUE)
          /\ txPc' = "confirmTransaction"
          /\ UNCHANGED txResult
       \/ /\ Len(txCalls) < 5
          /\ txCalls' = Called("sendRawTransaction", FALSE)
          /\ UNCHANGED <<txPc, txResult, txSig, txExec, chainVars>>
       \/ /\ Len(txCalls) >= 5
          /\ \E m \in ErrMsgs : CatchSend("sendRawTransaction", m)
          /\ UNCHANGED <<txSig, txExec, chainVars>>
    /\ UNCHANGED <<txCaller, txKind, txConfErr, txParsed>>
    /\ UNCHANGED <<cacheVars, sagaVars>>
    /\ UNCHANGED <<tableVars, buildVars, raceVars, appVars>>

SendRawTransaction ==
    /\ txPc = "sendRawTransaction"
    /\ \/ /\ Len(ledger) < MaxSigs
          /\ \E exec \in ExecOutcomes(txKind) :
                /\ Submit(txKind, exec)
                /\ txExec' = exec
          /\ txSig' = Sig(Len(ledger) + 1)
          /\ txCalls' = Called("sendRawTransaction", TRUE)
          /\ txPc' = "confirmTransaction"
          /\ UNCHANGED txResult
       \/ /\ \E m \in ErrMsgs : CatchSend("sendRawTransaction", m)
          /\ UNCHANGED <<txSig, txExec, chainVars>>
    /\ UNCHANGED <<txCaller, txKind, txConfErr, txParsed>>
    /\ UNCHANGED <<cacheVars, sagaVars>>
    /\ UNCHANGED <<tableVars, buildVars, raceVars, appVars>>

SendConfirmTransaction ==
    /\ txPc = "confirmTransaction"
    /\ \/ /\ txCalls' = CalledWith("confirmTransaction", ConfirmStrategy)
          /\ txConfErr' = txExec
          /\ IF txExec = Null
                THEN /\ txResult' = TxResult(txSig, Null, Null)
                     /\ txPc' = "returned"
                ELSE /\ txPc' = "getTransaction"
                     /\ UNCHANGED txResult
       \/ /\ \E m \in ErrMsgs : CatchSend("confirmTransaction", m)
          /\ UNCHANGED txConfErr
    /\ ConfirmOver(Len(ledger))
    /\ UNCHANGED <<txCaller, txKind, txSig, txExec, txParsed>>
    /\ UNCHANGED <<chain, ledger, cacheVars, sagaVars>>
    /\ UNCHANGED <<tableVars, buildVars, raceVars, appVars>>

\* FailureResult reporting success although the confirmation carried an error
FailureResult_ErrIgnored(sig, parsed, err) == TxResult(sig, Null, Null)

\* FailureResult without the decoder: always the raw chain error, no hint
FailureResult_NoDecode(sig, parsed, err) == TxResult(sig, Some(JsonStringify(err[1])), Null)

\* the TxResult built at client.ts 513-517
FailureResult(sig, parsed, err) ==
    IF parsed # Null
        THEN TxResult(sig,
                 Some(parsed[1].name \o " (0x" \o ToHex(parsed[1].code) \o ")"),
                 parsed[1].hint)
        ELSE TxResult(sig, Some(JsonStringify(err[1])), Null)

SendGetTransaction ==
    /\ txPc = "getTransaction"
    /\ \/ \E logs \in SeqsUpTo(LogLines, MaxLogs) :
            \* txInfo null or without logMessages gives logs = []
            /\ txCalls' = Called("getTransaction", TRUE)
            /\ txParsed' = ParseErrorFromLogs(logs)
            /\ txResult' = FailureResult(txSig, ParseErrorFromLogs(logs), txConfErr)
            /\ txPc' = "returned"
       \/ /\ \E m \in ErrMsgs : CatchSend("getTransaction", m)
          /\ UNCHANGED txParsed
    /\ UNCHANGED <<txCaller, txKind, txSig, txExec, txConfErr>>
    /\ UNCHANGED <<chainVars, cacheVars, sagaVars>>
    /\ UNCHANGED <<tableVars, buildVars, raceVars, appVars>>

\* a component calls client.sendTransaction(wallet, tx)
CallSend ==
    /\ txPc = "idle"
    /\ Len(ledger) < MaxSends
    /\ \E kind \in {"InitMarket", "SetOracleAuthority", "PushOraclePrice", "InitLP"} :
          BeginSend("caller", kind)
    /\ UNCHANGED <<chainVars, cacheVars, sagaVars>>
    /\ UNCHANGED <<tableVars, buildVars, raceVars, appVars>>

\* the caller's await resumes with the TxResult
ResumeCaller ==
    /\ txPc = "returned"
    /\ txCaller = "caller"
    /\ txPc' = "idle"
    /\ UNCHANGED <<txCaller, txKind, txCalls, txSig, txExec, txConfErr, txParsed, txResult>>
    /\ UNCHANGED <<chainVars, cacheVars, sagaVars>>
    /\ UNCHANGED <<tableVars, buildVars, raceVars, appVars>>

SendSteps ==
    \/ SendGetLatestBlockhash
    \/ SendSignTransaction
    \/ SendSerialize
    \/ SendRawTransaction
    \/ SendConfirmTransaction
    \/ SendGetTransaction

(***************************************************************************)
(* Slab bytes, the slab cache and the read accessors                       *)
(***************************************************************************)
\* modelled layout of the slab buffer: header byte, config byte, engine byte
ConfigEnd == 2
EngineEnd == 3

Slabs == SeqsUpTo({0, 1}, MaxSlabLen)

\* parseConfig: Null stands for the thrown error on a buffer that is too
\* short, otherwise the typed view of the config region
ParseConfig(data) ==
    IF Len(data) < ConfigEnd THEN Null ELSE Some([indexFeedId |-> data[ConfigEnd]])

\* parseEngine, likewise
ParseEngine(data) ==
    IF Len(data) < EngineEnd THEN Null ELSE Some([lastCrankSlot |-> data[EngineEnd]])

\* refreshSlab: the cache fields and whether the call threw, given whether
\* fetchSlab resolved;
\*   this.slabData = await fetchSlab(...); this.marketConfig = parseConfig(this.slabData)
RefreshSlab(fetchOk) ==
    IF ~fetchOk
        THEN [slab |-> slabData, cfg |-> marketConfig, threw |-> TRUE]
        ELSE IF ParseConfig(chainSlab) = Null
            THEN [slab |-> Some(chainSlab), cfg |-> marketConfig, threw |-> TRUE]
            ELSE [slab |-> Some(chainSlab), cfg |-> ParseConfig(chainSlab), threw |-> FALSE]

(***************************************************************************)
(* The account table of the slab and the views the client derives from it  *)
(***************************************************************************)
\* slot indices are 0-based, as in the instructions that carry them
SlotIds == 0..(NumSlots - 1)

Owners == {"alice", "bob"}

Account(kind, owner, capital, positionSize, entryPrice) ==
    [kind |-> kind, owner |-> owner, capital |-> capital,
     positionSize |-> positionSize, entryPrice |-> entryPrice]

\* a slot that was never written
ZeroAccount == Account("User", "none", 0, 0, 0)

EmptyTable == [bitmap |-> [i \in SlotIds |-> FALSE], accounts |-> [i \in SlotIds |-> ZeroAccount]]

\* position sizes the tables are drawn from
Sizes == {0, 2000000, 0 - 2000000}

\* parseUsedIndices: the set bits of the bitmap, in ascending order
RECURSIVE UsedFrom(_, _)
UsedFrom(table, i) ==
    IF i >= NumSlots THEN <<>>
    ELSE (IF table.bitmap[i] THEN <<i>> ELSE <<>>) \o UsedFrom(table, i + 1)

ParseUsedIndices(table) == UsedFrom(table, 0)

\* parseAccount(data, idx): Null stands for the thrown error
ParseAccount(data, table, idx) ==
    IF Len(data) < EngineEnd \/ idx \notin SlotIds THEN Null ELSE Some(table.accounts[idx])

\* parseAllAccounts(data): the used slots, each paired with its slot index
ParseAllAccounts(data, table) ==
    IF Len(data) < EngineEnd THEN Null
    ELSE LET used == ParseUsedIndices(table)
         IN Some([i \in 1..Len(used) |-> [idx |-> used[i], account |-> table.accounts[used[i]]]])

\* accounts.find(a => a.account.owner.equals(owner)), reporting the array
\* position instead of the slot index
FindUserAccount_ArrayPosition(accounts, owner) ==
    LET hits == {i \in 1..Len(accounts) : accounts[i].account.owner = owner}
    IN IF hits = {} THEN Null
       ELSE LET i == CHOOSE j \in hits : \A k \in hits : j <= k
            IN Some([idx |-> i - 1, account |-> accounts[i].account])

\* accounts.find(a => a.account.owner.equals(owner)) || null
FindUserAccount(accounts, owner) ==
    LET hits == {i \in 1..Len(accounts) : accounts[i].account.owner = owner}
    IN IF hits = {} THEN Null
       ELSE Some(accounts[CHOOSE j \in hits : \A k \in hits : j <= k])

\* abs128 without the sign test
Abs128_Identity(val) == val

\* abs128
Abs128(val) == IF val < 0 THEN 0 - val ELSE val

PriceScale == 1000000

\* (a * b) / PriceScale over the naturals, computed in parts of three decimal
\* digits so that no intermediate product exceeds 32 bits
MulDivNat(a, b) ==
    LET qa == a \div PriceScale   ra == a % PriceScale
        qb == b \div PriceScale   rb == b % PriceScale
        ha == ra \div 1000   la == ra % 1000
        hb == rb \div 1000   lb == rb % 1000
    IN qa * qb * PriceScale + qa * rb + ra * qb + ha * hb
       + (((ha * lb + la * hb) * 1000 + la * lb) \div PriceScale)

\* the bigint expression (a * b) / 1_000_000n, which truncates toward zero
MulDiv(a, b) ==
    IF (a < 0) = (b < 0)
        THEN MulDivNat(IF a < 0 THEN 0 - a ELSE a, IF b < 0 THEN 0 - b ELSE b)
        ELSE 0 - MulDivNat(IF a < 0 THEN 0 - a ELSE a, IF b < 0 THEN 0 - b ELSE b)

RECURSIVE Gcd(_, _)
Gcd(a, b) == IF b = 0 THEN a ELSE Gcd(b, a % b)

\* the JavaScript number n / d, kept as a fraction in lowest terms
Ratio(n, d) ==
    LET g == Gcd(Abs128(n), Abs128(d))
        sign == IF d < 0 THEN 0 - 1 ELSE 1
    IN [num |-> sign * (n \div g), den |-> sign * (d \div g)]

Zero == [num |-> 0, den |-> 1]

\* notional of getAllPositions
Notional(a) ==
    IF a.entryPrice > 0
        THEN MulDiv(Abs128(a.positionSize), a.entryPrice)
        ELSE 0

\* leverage without the guard on capital
Leverage_Unguarded(a) ==
    IF a.capital # 0 THEN Ratio(Notional(a), a.capital) ELSE Zero

\* leverage of getAllPositions
Leverage(a) ==
    IF a.capital > 0 /\ Notional(a) > 0 THEN Ratio(Notional(a), a.capital) ELSE Zero

PositionInfo(e) ==
    [index |-> e.idx,
     kind |-> IF e.account.kind = "LP" THEN "lp" ELSE "user",
     owner |-> e.account.owner,
     capital |-> e.account.capital,
     positionSize |-> e.account.positionSize,
     entryPrice |-> e.account.entryPrice,
     leverage |-> Leverage(e.account)]

RECURSIVE MapPositions(_)
MapPositions(accounts) ==
    IF accounts = <<>> THEN <<>>
    ELSE <<PositionInfo(Head(accounts))>> \o MapPositions(Tail(accounts))

IsOpen(e) == e.account.positionSize # 0

\* getAllPositions keeping the long positions only
GetAllPositions_LongOnly(accounts) ==
    MapPositions(SelectSeq(accounts, LAMBDA e : e.account.positionSize > 0))

\* accounts.filter(a => a.account.positionSize !== 0n).map(...)
GetAllPositions(accounts) == MapPositions(SelectSeq(accounts, IsOpen))

\* the value the accessor resolves to, computed from the bytes just fetched
ViewValue(op, owner, data, table) ==
    LET accounts == ParseAllAccounts(data, table)[1]
    IN CASE op = "getMarketInfo" ->
              [config |-> ParseConfig(data)[1], engine |-> ParseEngine(data)[1],
               accounts |-> accounts]
         [] op = "findUserAccount" -> FindUserAccount(accounts, owner)
         [] OTHER -> GetAllPositions(accounts)

\* the latest table accessor call was of op and returned a value
ViewOk(op) == view # Null /\ view[1].op = op /\ ~view[1].threw

Accessors == {"getMarketConfig", "getEngineState", "getMarketInfo",
              "findUserAccount", "getAllPositions"}

\* NeedsFetch with every accessor lazy: fetch only into an empty cache
NeedsFetch_AllLazy(op) ==
    CASE op = "getMarketConfig" -> marketConfig = Null
      [] OTHER -> slabData = Null

\* whether the accessor calls refreshSlab in the current state
NeedsFetch(op) ==
    CASE op = "getMarketConfig" -> marketConfig = Null
      [] op = "getEngineState" -> slabData = Null
      [] OTHER -> TRUE

\* whether the accessor's own parsing of the bytes throws
ParseThrows(op, data) ==
    CASE op = "getMarketConfig" -> FALSE
      [] op = "refreshSlab" -> FALSE
      [] op = "getEngineState" -> data = Null \/ ParseEngine(data[1]) = Null
      [] OTHER -> data = Null \/ ParseConfig(data[1]) = Null \/ ParseEngine(data[1]) = Null

\* what the caller of a table accessor gets
ViewOf(op, owner, fetchOk) ==
    LET threw == RefreshSlab(fetchOk).threw \/ ParseThrows(op, RefreshSlab(fetchOk).slab)
    IN Some([op |-> op, owner |-> owner, threw |-> threw,
             value |-> IF threw THEN Null ELSE Some(ViewValue(op, owner, chainSlab, chainTable))])

\* one call of refreshSlab or of a read accessor, start to finish
ClientCall(op, fetchOk) ==
    LET fetch == op = "refreshSlab" \/ NeedsFetch(op)
        after == IF fetch THEN RefreshSlab(fetchOk)
                 ELSE [slab |-> slabData, cfg |-> marketConfig, threw |-> FALSE]
    IN /\ slabData' = after.slab
       /\ marketConfig' = after.cfg
       /\ lastCall' = Some([op |-> op,
                            hadSlab |-> slabData # Null,
                            hadConfig |-> marketConfig # Null,
                            fetches |-> IF fetch THEN 1 ELSE 0,
                            threw |-> after.threw \/ ParseThrows(op, after.slab)])
       /\ UNCHANGED chainSlab

CallRefreshSlab ==
    /\ \E fetchOk \in BOOLEAN : ClientCall("refreshSlab", fetchOk)
    /\ UNCHANGED <<sendVars, chainVars, sagaVars>>
    /\ UNCHANGED <<tableVars, buildVars, raceVars, appVars>>

CallGetMarketConfig ==
    /\ \E fetchOk \in BOOLEAN : ClientCall("getMarketConfig", fetchOk)
    /\ UNCHANGED <<sendVars, chainVars, sagaVars>>
    /\ UNCHANGED <<tableVars, buildVars, raceVars, appVars>>

CallGetEngineState ==
    /\ \E fetchOk \in BOOLEAN : ClientCall("getEngineState", fetchOk)
    /\ UNCHANGED <<sendVars, chainVars, sagaVars>>
    /\ UNCHANGED <<tableVars, buildVars, raceVars, appVars>>

CallGetMarketInfo ==
    /\ \E fetchOk \in BOOLEAN :
          /\ ClientCall("getMarketInfo", fetchOk)
          /\ view' = ViewOf("getMarketInfo", "none", fetchOk)
    /\ UNCHANGED <<sendVars, chainVars, sagaVars>>
    /\ UNCHANGED <<chainTable, buildVars, raceVars, appVars>>

CallFindUserAccount ==
    /\ \E fetchOk \in BOOLEAN, owner \in Owners :
          /\ ClientCall("findUserAccount", fetchOk)
          /\ view' = ViewOf("findUserAccount", owner, fetchOk)
    /\ UNCHANGED <<sendVars, chainVars, sagaVars>>
    /\ UNCHANGED <<chainTable, buildVars, raceVars, appVars>>

CallGetAllPositions ==
    /\ \E fetchOk \in BOOLEAN :
          /\ ClientCall("getAllPositions", fetchOk)
          /\ view' = ViewOf("getAllPositions", "none", fetchOk)
    /\ UNCHANGED <<sendVars, chainVars, sagaVars>>
    /\ UNCHANGED <<chainTable, buildVars, raceVars, appVars>>

\* the program rewrites the slab account in place (its size is fixed)
ChainWrite ==
    /\ \E b \in Slabs :
          /\ Len(b) = Len(chainSlab)
          /\ b # chainSlab
          /\ chainSlab' = b
    /\ UNCHANGED <<slabData, marketConfig, lastCall>>
    /\ UNCHANGED <<sendVars, chainVars, sagaVars>>
    /\ UNCHANGED <<tableVars, buildVars, raceVars, appVars>>

(***************************************************************************)
(* The per-operation transaction builders                                  *)
(***************************************************************************)
BuilderOps == {"InitUser", "DepositCollateral", "WithdrawCollateral", "TradeCpi",
               "TradeNoCpi", "KeeperCrank", "CloseAccount", "InitMarket", "InitLP",
               "SetOracleAuthority", "PushOraclePrice", "TopUpInsurance"}

\* ConfigVia with buildTradeCpiTx reading the config lazily as well
ConfigVia_AlwaysLazy(op) ==
    CASE op \in {"InitUser", "DepositCollateral", "WithdrawCollateral", "TradeNoCpi",
                 "KeeperCrank", "CloseAccount", "TradeCpi"} -> "getMarketConfig"
      [] OTHER -> "none"

\* how the builder obtains the market config: through the lazy accessor,
\* through refreshSlab and parseConfig, or not at all
ConfigVia(op) ==
    CASE op \in {"InitUser", "DepositCollateral", "WithdrawCollateral", "TradeNoCpi",
                 "KeeperCrank", "CloseAccount"} -> "getMarketConfig"
      [] op = "TradeCpi" -> "refreshSlab"
      [] OTHER -> "none"

\* the builders that read the LP account with parseAccount(data, lpIdx)
LpOps == {"TradeCpi", "TradeNoCpi"}

\* the encode<Op> function the builder calls
Encoder(op) ==
    CASE op = "InitUser" -> "encodeInitUser"
      [] op = "DepositCollateral" -> "encodeDepositCollateral"
      [] op = "WithdrawCollateral" -> "encodeWithdrawCollateral"
      [] op = "TradeCpi" -> "encodeTradeCpi"
      [] op = "TradeNoCpi" -> "encodeTradeNoCpi"
      [] op = "KeeperCrank" -> "encodeKeeperCrank"
      [] op = "CloseAccount" -> "encodeCloseAccount"
      [] op = "InitMarket" -> "encodeInitMarket"
      [] op = "InitLP" -> "encodeInitLP"
      [] op = "SetOracleAuthority" -> "encodeSetOracleAuthority"
      [] op = "PushOraclePrice" -> "encodePushOraclePrice"
      [] OTHER -> "encodeTopUpInsurance"

\* Template with buildDepositTx handing over the withdraw template
Template_DepositUsesWithdraw(op) ==
    CASE op = "InitUser" -> "ACCOUNTS_INIT_USER"
      [] op = "DepositCollateral" -> "ACCOUNTS_WITHDRAW_COLLATERAL"
      [] op = "WithdrawCollateral" -> "ACCOUNTS_WITHDRAW_COLLATERAL"
      [] op = "TradeCpi" -> "ACCOUNTS_TRADE_CPI"
      [] op = "TradeNoCpi" -> "ACCOUNTS_TRADE_NOCPI"
      [] op = "KeeperCrank" -> "ACCOUNTS_KEEPER_CRANK"
      [] op = "CloseAccount" -> "ACCOUNTS_CLOSE_ACCOUNT"
      [] op = "InitMarket" -> "ACCOUNTS_INIT_MARKET"
      [] op = "InitLP" -> "ACCOUNTS_INIT_LP"
      [] op = "SetOracleAuthority" -> "ACCOUNTS_SET_ORACLE_AUTHORITY"
      [] op = "PushOraclePrice" -> "ACCOUNTS_PUSH_ORACLE_PRICE"
      [] OTHER -> "ACCOUNTS_TOPUP_INSURANCE"

\* the account template the builder hands to buildAccountMetas
Template(op) ==
    CASE op = "InitUser" -> "ACCOUNTS_INIT_USER"
      [] op = "DepositCollateral" -> "ACCOUNTS_DEPOSIT_COLLATERAL"
      [] op = "WithdrawCollateral" -> "ACCOUNTS_WITHDRAW_COLLATERAL"
      [] op = "TradeCpi" -> "ACCOUNTS_TRADE_CPI"
      [] op = "TradeNoCpi" -> "ACCOUNTS_TRADE_NOCPI"
      [] op = "KeeperCrank" -> "ACCOUNTS_KEEPER_CRANK"
      [] op = "CloseAccount" -> "ACCOUNTS_CLOSE_ACCOUNT"
      [] op = "InitMarket" -> "ACCOUNTS_INIT_MARKET"
      [] op = "InitLP" -> "ACCOUNTS_INIT_LP"
      [] op = "SetOracleAuthority" -> "ACCOUNTS_SET_ORACLE_AUTHORITY"
      [] op = "PushOraclePrice" -> "ACCOUNTS_PUSH_ORACLE_PRICE"
      [] OTHER -> "ACCOUNTS_TOPUP_INSURANCE"

\* config.indexFeedId as an address
FeedKey(cfg) == IF cfg = Null THEN "none" ELSE IF cfg[1].indexFeedId = 0 THEN "feed0" ELSE "feed1"

\* the addresses the builder supplies to buildAccountMetas, in its order
SuppliedKeys(op, wallet, cfg, lpOwner) ==
    CASE op = "InitUser" -> <<wallet, "slab", "userAta", "vault", "tokenProgram">>
      [] op = "DepositCollateral" ->
            <<wallet, "slab", "userAta", "vault", "tokenProgram", "clock">>
      [] op = "WithdrawCollateral" ->
            <<wallet, "slab", "vault", "userAta", "vaultPda", "tokenProgram", "clock",
              FeedKey(cfg)>>
      [] op = "TradeCpi" ->
            <<wallet, lpOwner, "slab", "clock", FeedKey(cfg), "matcherProgram",
              "matcherCtx", "lpPda">>
      [] op = "TradeNoCpi" -> <<wallet, lpOwner, "slab", "clock", FeedKey(cfg)>>
      [] op = "KeeperCrank" -> <<wallet, "slab", "clock", FeedKey(cfg)>>
      [] op = "CloseAccount" ->
            <<wallet, "slab", "vault", "userAta", "vaultPda", "tokenProgram", "clock",
              FeedKey(cfg)>>
      [] op = "InitMarket" ->
            <<wallet, "slab", "mint", "vault", "tokenProgram", "clock", "rent",
              "dummyAta", "systemProgram">>
      [] op = "InitLP" -> <<wallet, "slab", "userAta", "vault", "tokenProgram">>
      [] op = "SetOracleAuthority" -> <<wallet, "slab">>
      [] op = "PushOraclePrice" -> <<wallet, "slab">>
      [] OTHER -> <<wallet, "slab", "userAta", "vault", "tokenProgram">>

\* new TransactionInstruction({ programId, keys, data: ixData })
Instruction(op, args, keys) ==
    [program |-> "percolator", encoder |-> Encoder(op), template |-> Template(op),
     args |-> args, keys |-> keys]

ComputeUnitLimit == 400000

\* buildTransaction without the compute-budget instruction
BuildTransaction_NoBudget(ix) == <<ix>>

\* buildTransaction
BuildTransaction(ix) == <<[program |-> "ComputeBudget", units |-> ComputeUnitLimit], ix>>

\* a builder that goes on after parseAccount threw and returns a transaction
Propagate_LpErrorSwallowed(failed, tx) ==
    IF failed \in {"none", "parseAccount"} THEN Some(tx) ELSE Null

\* no builder catches: a transaction is returned only if no step threw
Propagate(failed, tx) == IF failed = "none" THEN Some(tx) ELSE Null

\* what the builder can be made to fail on from outside: the two fetches, the
\* encoder and buildAccountMetas; the builder stops at the first step that
\* fails, so one failing step per run covers every outcome
BuildInputs ==
    {[fetchOk |-> f # "fetch", fetchOk2 |-> f # "fetch2", encOk |-> f # "encode",
      metaOk |-> f # "metas"] : f \in {"none", "fetch", "fetch2", "encode", "metas"}}

\* one run of a builder: the cache it leaves and the outcome for its caller
Build(op, wallet, args, lpOwnerWallet, in) ==
    LET hadConfig == marketConfig # Null
        fetchFirst == \/ ConfigVia(op) = "refreshSlab"
                      \/ ConfigVia(op) = "getMarketConfig" /\ NeedsFetch("getMarketConfig")
        first == IF fetchFirst THEN RefreshSlab(in.fetchOk)
                 ELSE [slab |-> slabData, cfg |-> marketConfig, threw |-> FALSE]
        \* buildTradeNoCpiTx calls refreshSlab after getMarketConfig returned
        fetchSecond == op = "TradeNoCpi" /\ ~first.threw
        second == IF ~fetchSecond THEN first
                  ELSE IF ~in.fetchOk2 THEN [first EXCEPT !.threw = TRUE]
                  ELSE IF ParseConfig(chainSlab) = Null
                      THEN [slab |-> Some(chainSlab), cfg |-> first.cfg, threw |-> TRUE]
                      ELSE [slab |-> Some(chainSlab), cfg |-> ParseConfig(chainSlab),
                            threw |-> FALSE]
        lp == IF op \in LpOps /\ ~second.threw
                  THEN ParseAccount(chainSlab, chainTable, args.lpIdx) ELSE Null
        lpOwner == IF lpOwnerWallet # Null THEN lpOwnerWallet[1]
                   ELSE IF lp # Null THEN lp[1].owner ELSE "none"
        failed == IF second.threw THEN "fetch"
                  ELSE IF op \in LpOps /\ lp = Null THEN "parseAccount"
                  ELSE IF ~in.encOk THEN "encode"
                  ELSE IF ~in.metaOk THEN "metas"
                  ELSE "none"
        cfg == IF ConfigVia(op) = "none" THEN Null ELSE first.cfg
        tx == Propagate(failed,
                  BuildTransaction(Instruction(op, args, SuppliedKeys(op, wallet, cfg, lpOwner))))
    IN [slab |-> second.slab,
        cfg |-> second.cfg,
        result |-> [op |-> op, wallet |-> wallet, args |-> args, failed |-> failed, tx |-> tx,
                    hadConfig |-> hadConfig,
                    fetches |-> (IF fetchFirst THEN 1 ELSE 0) + (IF fetchSecond THEN 1 ELSE 0),
                    cfgFrom |-> IF ConfigVia(op) = "none" THEN "none"
                                ELSE IF fetchFirst THEN "fetch" ELSE "cache",
                    cfgOnChain |-> FeedKey(ParseConfig(chainSlab))]]

\* a call of a builder by a caller that keeps the outcome
CallBuild(op, wallet, args, lpOwnerWallet) ==
    \E in \in BuildInputs :
        LET built == Build(op, wallet, args, lpOwnerWallet, in)
        IN /\ slabData' = built.slab
           /\ marketConfig' = built.cfg
           /\ lastBuild' = Some(built.result)
           /\ UNCHANGED <<chainSlab, lastCall, tableVars, raceVars, appVars>>
           /\ UNCHANGED <<sendVars, chainVars, sagaVars>>

\* lpIdx may point past the table
LpIdxs == 0..NumSlots

\* encodeCloseAccount called with slot 0 whatever the caller passed
CloseArgs_SlotZero(userIdx) == [userIdx |-> 0]

\* encodeCloseAccount({ userIdx })
CloseArgs(userIdx) == [userIdx |-> userIdx]

\* the wallet the builders are called with
Wallets == {"alice"}

BuildInitUserTx ==
    \E wallet \in Wallets : CallBuild("InitUser", wallet, [feePayment |-> 1000000], Null)

BuildDepositTx ==
    \E wallet \in Wallets, userIdx \in {0} :
        CallBuild("DepositCollateral", wallet, [userIdx |-> userIdx, amount |-> 1000000], Null)

BuildWithdrawTx ==
    \E wallet \in Wallets, userIdx \in {0} :
        CallBuild("WithdrawCollateral", wallet, [userIdx |-> userIdx, amount |-> 1000000], Null)

BuildTradeCpiTx ==
    \E wallet \in Wallets, userIdx \in {0}, lpIdx \in LpIdxs :
        CallBuild("TradeCpi", wallet,
                  [lpIdx |-> lpIdx, userIdx |-> userIdx, size |-> 2000000], Null)

BuildTradeNoCpiTx ==
    \E wallet \in Wallets, userIdx \in {0}, lpIdx \in LpIdxs,
       lpOwnerWallet \in {Null, Some("bob")} :
        CallBuild("TradeNoCpi", wallet,
                  [lpIdx |-> lpIdx, userIdx |-> userIdx, size |-> 2000000], lpOwnerWallet)

BuildKeeperCrankTx ==
    \E wallet \in Wallets :
        CallBuild("KeeperCrank", wallet, [callerIdx |-> 0, allowPanic |-> FALSE], Null)

BuildCloseAccountTx ==
    \E wallet \in Wallets, userIdx \in {0} :
        CallBuild("CloseAccount", wallet, CloseArgs(userIdx), Null)

BuildInitMarketTx ==
    \E wallet \in Wallets : CallBuild("InitMarket", wallet, [marketArgs |-> "args"], Null)

BuildInitLpTx ==
    \E wallet \in Wallets : CallBuild("InitLP", wallet, [feePayment |-> 1000000], Null)

BuildSetOracleAuthorityTx ==
    \E wallet \in Wallets :
        CallBuild("SetOracleAuthority", wallet, [newAuthority |-> wallet], Null)

BuildPushOraclePriceTx ==
    \E wallet \in Wallets :
        CallBuild("PushOraclePrice", wallet, [priceE6 |-> 1000000, timestamp |-> 1], Null)

BuildTopUpInsuranceTx ==
    \E wallet \in Wallets : CallBuild("TopUpInsurance", wallet, [amount |-> 1000000], Null)

\* JavaScript truthiness of `result.error` (string | null)
Truthy(err) == err # Null /\ err[1] # ""

(***************************************************************************)
(* PositionList: the position view and its close button, and the program   *)
(* acting on the account table                                             *)
(***************************************************************************)
\* CloseAccount as the program executes it: the slot must be used, owned by
\* the signer and hold no position
CloseAccepted(table, idx, signer) ==
    /\ idx \in SlotIds
    /\ table.bitmap[idx]
    /\ table.accounts[idx].owner = signer
    /\ table.accounts[idx].positionSize = 0

\* the tables CloseAccount can leave: the slot is free, its bytes kept or zeroed
Closed(table, idx) ==
    {[bitmap |-> [table.bitmap EXCEPT ![idx] = FALSE],
      accounts |-> [table.accounts EXCEPT ![idx] = a]] :
     a \in {table.accounts[idx], ZeroAccount}}

\* the position state of the component, from the latest findUserAccount:
\*   if (found && found.account.positionSize !== 0n) setPosition({ index: found.idx, ... })
\*   else setPosition(null), and setPosition(null) when the call threw
Position ==
    IF /\ ViewOk("findUserAccount")
       /\ view[1].value[1] # Null
       /\ view[1].value[1][1].account.positionSize # 0
        THEN Some([index |-> view[1].value[1][1].idx, wallet |-> view[1].owner])
        ELSE Null

\* fetchPosition, on a client of its own
FetchPosition ==
    /\ \E fetchOk \in BOOLEAN, owner \in Owners :
          view' = ViewOf("findUserAccount", owner, fetchOk)
    /\ UNCHANGED <<chainTable, buildVars, raceVars, appVars, cacheVars>>
    /\ UNCHANGED <<sendVars, chainVars, sagaVars>>

\* what sendTransaction returns and whether the transaction was executed,
\* given whether the program accepts the instruction
SendOutcomes(accepted) ==
    {[landed |-> FALSE, result |-> TxResult("", Some(m), Null)] : m \in ErrMsgs}
    \cup {[landed |-> accepted, result |-> TxResult("", Some(m), Null)] : m \in ErrMsgs}
    \cup IF accepted
            THEN {[landed |-> TRUE, result |-> TxResult(Sig(1), Null, Null)]}
            ELSE {[landed |-> FALSE,
                   result |-> FailureResult(Sig(1), Null, Some("InstructionError"))]}

\* handleClose: build CloseAccount for position.index on a client of its own,
\* send it, and clear the position unless result.error is truthy
HandleClose ==
    /\ Position # Null
    /\ \E in \in BuildInputs :
          LET wallet == Position[1].wallet
              built == Build("CloseAccount", wallet, CloseArgs(Position[1].index), Null, in)
          IN /\ lastBuild' = Some(built.result)
             /\ IF built.result.tx = Null
                   THEN /\ txResult' = NoResult
                        /\ UNCHANGED <<chainTable, view>>
                   ELSE \E out \in SendOutcomes(CloseAccepted(chainTable,
                                   built.result.tx[1][2].args.userIdx, wallet)) :
                          /\ txResult' = out.result
                          /\ IF out.landed
                                THEN chainTable' \in Closed(chainTable,
                                         built.result.tx[1][2].args.userIdx)
                                ELSE UNCHANGED chainTable
                          /\ view' = IF Truthy(out.result.error) THEN view ELSE Null
    /\ UNCHANGED <<txPc, txCaller, txKind, txCalls, txSig, txExec, txConfErr, txParsed>>
    /\ UNCHANGED <<raceVars, appVars, cacheVars, chainVars, sagaVars>>

\* InitUser executed by the program: a free slot becomes a user account of the signer
ChainInitUser ==
    /\ \E i \in SlotIds, owner \in Owners :
          /\ ~chainTable.bitmap[i]
          /\ chainTable' = [bitmap |-> [chainTable.bitmap EXCEPT ![i] = TRUE],
                            accounts |-> [chainTable.accounts EXCEPT
                                ![i] = Account("User", owner, 0, 0, 0)]]
    /\ UNCHANGED <<view, buildVars, raceVars, appVars, cacheVars>>
    /\ UNCHANGED <<sendVars, chainVars, sagaVars>>

\* a trade executed by the program: a used slot's position opens or closes
ChainTrade ==
    /\ \E i \in SlotIds, size \in Sizes :
          /\ chainTable.bitmap[i]
          /\ size # chainTable.accounts[i].positionSize
          /\ chainTable' = [chainTable EXCEPT
                !.accounts[i].positionSize = size,
                !.accounts[i].entryPrice = IF size = 0 THEN 0 ELSE 1000000]
    /\ UNCHANGED <<view, buildVars, raceVars, appVars, cacheVars>>
    /\ UNCHANGED <<sendVars, chainVars, sagaVars>>

(***************************************************************************)
(* FuturesPanel: checkUserAccount and handleOpenPosition                   *)
(***************************************************************************)
\* the wallet connected to the panel
PanelWallet == "alice"

NotOpening == [at |-> "idle", userIdx |-> 0, size |-> 0]

\* checkUserAccount, on a client of its own: found sets userIdx and
\* hasAccount, not found clears both, a throw clears hasAccount only
CheckUserAccount ==
    /\ \E fetchOk \in BOOLEAN :
          LET found == ViewOf("findUserAccount", PanelWallet, fetchOk)[1]
          IN IF found.threw
                THEN /\ hasAccount' = FALSE
                     /\ UNCHANGED panelUserIdx
                ELSE /\ hasAccount' = (found.value[1] # Null)
                     /\ panelUserIdx' = IF found.value[1] = Null THEN Null
                                        ELSE Some(found.value[1][1].idx)
    /\ UNCHANGED <<status, openPc, openLog, launchVars, registryVars>>
    /\ UNCHANGED <<sendVars, chainVars, cacheVars, sagaVars, tableVars, buildVars, raceVars>>

\* DepositCollateral as executed by the program
DepositAccepted(table, idx, signer) ==
    /\ idx \in SlotIds
    /\ table.bitmap[idx]
    /\ table.accounts[idx].owner = signer

Deposited(table, idx, amount) == [table EXCEPT !.accounts[idx].capital = @ + amount]

\* TradeCpi as executed by the program: the user takes size, the LP the other side
TradeAccepted(table, userIdx, lpIdx, size, signer) ==
    /\ DepositAccepted(table, userIdx, signer)
    /\ lpIdx \in SlotIds
    /\ lpIdx # userIdx
    /\ table.bitmap[lpIdx]
    /\ table.accounts[lpIdx].kind = "LP"
    /\ table.accounts[userIdx].positionSize + size \in Sizes
    /\ table.accounts[lpIdx].positionSize - size \in Sizes

Traded(table, userIdx, lpIdx, size) ==
    LET user == table.accounts[userIdx].positionSize + size
        lp == table.accounts[lpIdx].positionSize - size
    IN [table EXCEPT !.accounts[userIdx].positionSize = user,
                     !.accounts[userIdx].entryPrice = IF user = 0 THEN 0 ELSE 1000000,
                     !.accounts[lpIdx].positionSize = lp,
                     !.accounts[lpIdx].entryPrice = IF lp = 0 THEN 0 ELSE 1000000]

\* if (depositResult.error) { setStatus(error); return }
DepositFailed(result) == Truthy(result.error)

\* marketInfo.accounts.find(a => a.account.kind === 1); lpIdx = lpAccount ? lpAccount.idx : 0
LpIdxOf(accounts) ==
    LET lps == {i \in 1..Len(accounts) : accounts[i].account.kind = "LP"}
    IN IF lps = {} THEN 0
       ELSE accounts[CHOOSE j \in lps : \A k \in lps : j <= k].idx

\* handleOpenPosition up to the end of the wrap: the guards, a client of its
\* own, the wrap transaction signed, sent raw and its confirmation awaited
\* (the confirmation's err is not looked at)
OpenWrap ==
    /\ openPc.at = "idle"
    /\ panelUserIdx # Null
    /\ \A i \in SlotIds : chainTable.accounts[i].capital < MaxDeposits * 1000000
    /\ \E amountOk \in BOOLEAN, size \in Sizes \ {0},
          wrap \in {"threw", "sentThenThrew", "confirmed", "confirmedWithErr"} :
          IF ~amountOk
             THEN /\ status' = Some("error")
                  /\ UNCHANGED <<openPc, openLog, slabData, marketConfig>>
             ELSE /\ slabData' = Null
                  /\ marketConfig' = Null
                  /\ openLog' = IF wrap = "threw" THEN <<>>
                                ELSE <<[step |-> "wrap",
                                        awaited |-> wrap # "sentThenThrew",
                                        error |-> IF wrap = "confirmedWithErr"
                                                     THEN Some("InstructionError")
                                                     ELSE Null]>>
                  /\ IF wrap \in {"threw", "sentThenThrew"}
                        THEN /\ status' = Some("error")
                             /\ openPc' = NotOpening
                        ELSE /\ status' = Some("info")
                             /\ openPc' = [at |-> "deposit", userIdx |-> panelUserIdx[1],
                                           size |-> size]
    /\ UNCHANGED <<panelUserIdx, hasAccount, chainSlab, lastCall, launchVars, registryVars>>
    /\ UNCHANGED <<sendVars, chainVars, sagaVars, tableVars, buildVars, raceVars>>

\* handleOpenPosition, step 1: buildDepositTx, sendTransaction, and the test
\* of depositResult.error
OpenDeposit ==
    /\ openPc.at = "deposit"
    /\ \E in \in BuildInputs :
          LET built == Build("DepositCollateral", PanelWallet,
                             [userIdx |-> openPc.userIdx, amount |-> 1000000], Null, in)
          IN /\ slabData' = built.slab
             /\ marketConfig' = built.cfg
             /\ lastBuild' = Some(built.result)
             /\ IF built.result.tx = Null
                   THEN /\ status' = Some("error")
                        /\ openPc' = NotOpening
                        /\ UNCHANGED <<openLog, chainTable>>
                   ELSE \E out \in SendOutcomes(DepositAccepted(chainTable,
                                   built.result.tx[1][2].args.userIdx, PanelWallet)) :
                          /\ openLog' = Append(openLog, [step |-> "deposit", awaited |-> TRUE,
                                                         error |-> out.result.error])
                          /\ chainTable' = IF out.landed
                                              THEN Deposited(chainTable, openPc.userIdx, 1000000)
                                              ELSE chainTable
                          /\ IF DepositFailed(out.result)
                                THEN /\ status' = Some("error")
                                     /\ openPc' = NotOpening
                                ELSE /\ status' = Some("info")
                                     /\ openPc' = [openPc EXCEPT !.at = "trade"]
    /\ UNCHANGED <<panelUserIdx, hasAccount, chainSlab, lastCall, view, launchVars, registryVars>>
    /\ UNCHANGED <<sendVars, chainVars, sagaVars, raceVars>>

\* handleOpenPosition, steps 2 and 3: getMarketInfo, the LP lookup,
\* buildTradeCpiTx and sendTransaction
OpenTrade ==
    /\ openPc.at = "trade"
    /\ \E fetchOk \in BOOLEAN, in \in BuildInputs :
          LET info == RefreshSlab(fetchOk)
              infoThrew == info.threw \/ ParseThrows("getMarketInfo", info.slab)
              lpIdx == LpIdxOf(ParseAllAccounts(chainSlab, chainTable)[1])
              built == Build("TradeCpi", PanelWallet,
                             [lpIdx |-> lpIdx, userIdx |-> openPc.userIdx,
                              size |-> openPc.size], Null, in)
          IN IF infoThrew
                THEN /\ slabData' = info.slab
                     /\ marketConfig' = info.cfg
                     /\ status' = Some("error")
                     /\ UNCHANGED <<openLog, chainTable, lastBuild>>
                ELSE /\ slabData' = IF built.result.failed = "fetch" THEN info.slab
                                    ELSE built.slab
                     /\ marketConfig' = IF built.result.failed = "fetch" THEN info.cfg
                                        ELSE built.cfg
                     /\ lastBuild' = Some(built.result)
                     /\ IF built.result.tx = Null
                           THEN /\ status' = Some("error")
                                /\ UNCHANGED <<openLog, chainTable>>
                           ELSE \E out \in SendOutcomes(TradeAccepted(chainTable,
                                           openPc.userIdx, lpIdx, openPc.size, PanelWallet)) :
                                  /\ openLog' = Append(openLog,
                                         [step |-> "trade", awaited |-> TRUE,
                                          error |-> out.result.error])
                                  /\ chainTable' = IF out.landed
                                         THEN Traded(chainTable, openPc.userIdx, lpIdx,
                                                     openPc.size)
                                         ELSE chainTable
                                  /\ status' = IF Truthy(out.result.error)
                                                  THEN Some("error") ELSE Some("success")
    /\ openPc' = NotOpening
    /\ UNCHANGED <<panelUserIdx, hasAccount, chainSlab, lastCall, view, launchVars, registryVars>>
    /\ UNCHANGED <<sendVars, chainVars, sagaVars, raceVars>>

(***************************************************************************)
(* Two callers on one client, interleaving at the fetchSlab await          *)
(***************************************************************************)
\* refreshSlab after its await, keeping the newer of cache and response
Arrive_KeepNewest(resp) ==
    IF resp.ver < cacheVer
        THEN [slab |-> slabData, cfg |-> marketConfig, ver |-> cacheVer]
        ELSE [slab |-> Some(resp.slab),
              cfg |-> IF ParseConfig(resp.slab) = Null THEN marketConfig
                      ELSE ParseConfig(resp.slab),
              ver |-> resp.ver]

\* refreshSlab after its await: the response is stored whatever the cache holds;
\*   this.slabData = await fetchSlab(...); this.marketConfig = parseConfig(this.slabData)
Arrive(resp) ==
    [slab |-> Some(resp.slab),
     cfg |-> IF ParseConfig(resp.slab) = Null THEN marketConfig ELSE ParseConfig(resp.slab),
     ver |-> resp.ver]

\* what buildDepositTx was built from: the config, the version of the snapshot
\* it was parsed from, and the newest version the client had received by then
DepositBuilt(cfg, ver, newest) ==
    Some([cfg |-> cfg, cfgVer |-> ver, newest |-> newest,
          tx |-> BuildTransaction(Instruction("DepositCollateral",
                     [userIdx |-> 0, amount |-> 1000000],
                     SuppliedKeys("DepositCollateral", "alice", cfg, "none")))])

\* a caller enters refreshSlab and suspends on fetchSlab
RaceCallRefreshSlab(p) ==
    /\ racePc[p] = "idle"
    /\ racePc' = [racePc EXCEPT ![p] = "refreshSlab"]
    /\ UNCHANGED <<raceResp, raceBuilt, chainVer, cacheVer, arrivedVer, newestVer>>
    /\ UNCHANGED <<cacheVars, tableVars, buildVars, sendVars, chainVars, sagaVars, appVars>>

\* a caller enters buildDepositTx: with a cached config it builds without
\* touching the network, otherwise it suspends on fetchSlab
RaceCallBuildDepositTx(p) ==
    /\ racePc[p] = "idle"
    /\ IF NeedsFetch("getMarketConfig")
          THEN /\ racePc' = [racePc EXCEPT ![p] = "buildDepositTx"]
               /\ UNCHANGED raceBuilt
          ELSE /\ raceBuilt' = [raceBuilt EXCEPT
                     ![p] = DepositBuilt(marketConfig, cacheVer, newestVer)]
               /\ UNCHANGED racePc
    /\ UNCHANGED <<raceResp, chainVer, cacheVer, arrivedVer, newestVer>>
    /\ UNCHANGED <<cacheVars, tableVars, buildVars, sendVars, chainVars, sagaVars, appVars>>

\* the node answers a pending fetchSlab with the account as it is now
RaceServe(p) ==
    /\ racePc[p] \in {"refreshSlab", "buildDepositTx"}
    /\ raceResp[p] = Null
    /\ raceResp' = [raceResp EXCEPT ![p] = Some([slab |-> chainSlab, ver |-> chainVer])]
    /\ UNCHANGED <<racePc, raceBuilt, chainVer, cacheVer, arrivedVer, newestVer>>
    /\ UNCHANGED <<cacheVars, tableVars, buildVars, sendVars, chainVars, sagaVars, appVars>>

\* a pending fetchSlab rejects: the call throws and the cache is as it was
RaceFetchFails(p) ==
    /\ racePc[p] \in {"refreshSlab", "buildDepositTx"}
    /\ raceResp[p] = Null
    /\ racePc' = [racePc EXCEPT ![p] = "idle"]
    /\ UNCHANGED <<raceResp, raceBuilt, chainVer, cacheVer, arrivedVer, newestVer>>
    /\ UNCHANGED <<cacheVars, tableVars, buildVars, sendVars, chainVars, sagaVars, appVars>>

\* the response reaches the caller: refreshSlab resumes, stores it, and a
\* suspended buildDepositTx goes on with the config now in the cache
RaceArrive(p) ==
    /\ raceResp[p] # Null
    /\ LET got == Arrive(raceResp[p][1])
       IN /\ slabData' = got.slab
          /\ marketConfig' = got.cfg
          /\ cacheVer' = got.ver
          /\ arrivedVer' = raceResp[p][1].ver
          /\ newestVer' = IF raceResp[p][1].ver > newestVer
                              THEN raceResp[p][1].ver ELSE newestVer
          /\ raceBuilt' = IF racePc[p] = "buildDepositTx"
                                 /\ ParseConfig(raceResp[p][1].slab) # Null
                              THEN [raceBuilt EXCEPT
                                       ![p] = DepositBuilt(got.cfg, got.ver, newestVer')]
                              ELSE raceBuilt
    /\ racePc' = [racePc EXCEPT ![p] = "idle"]
    /\ raceResp' = [raceResp EXCEPT ![p] = Null]
    /\ UNCHANGED <<chainVer, chainSlab, lastCall>>
    /\ UNCHANGED <<tableVars, buildVars, sendVars, chainVars, sagaVars, appVars>>

\* the slab account is rewritten on chain while calls are in flight
RaceChainWrite ==
    /\ chainVer < MaxVer
    /\ \E b \in Slabs :
          /\ Len(b) = Len(chainSlab)
          /\ ParseConfig(b) # ParseConfig(chainSlab)
          /\ chainSlab' = b
    /\ chainVer' = chainVer + 1
    /\ UNCHANGED <<racePc, raceResp, raceBuilt, cacheVer, arrivedVer, newestVer>>
    /\ UNCHANGED <<slabData, marketConfig, lastCall>>
    /\ UNCHANGED <<tableVars, buildVars, sendVars, chainVars, sagaVars, appVars>>

(***************************************************************************)
(* createPercolatorMarket: the market-bootstrap saga                       *)
(***************************************************************************)
\* steps 1, 2 and 6 send their transaction inline; 3, 4, 5 and 7 go through
\* client.build...Tx and client.sendTransaction
RawSteps == {1, 2, 6}
ClientSteps == {3, 4, 5, 7}

SagaFailure(msg) == Some([success |-> FALSE, slabAddress |-> Null, error |-> Some(msg)])
SagaSuccess == Some([success |-> TRUE, slabAddress |-> Some("slab"), error |-> Null])

FirstPhase(k) ==
    IF k \in {1, 6} THEN "rent" ELSE IF k = 2 THEN "blockhash" ELSE "build"

\* the saga returns: nothing more is issued
SagaReturn(result) ==
    /\ sagaStep' = 8
    /\ sagaPhase' = "returned"
    /\ sagaResult' = result

\* control passes from step k to the code after it
Advance(k) ==
    IF k = 7
        THEN SagaReturn(SagaSuccess)
        ELSE /\ sagaStep' = k + 1
             /\ sagaPhase' = FirstPhase(k + 1)
             /\ UNCHANGED sagaResult

\* SagaCatch with a compensation: the slab account created by step 1 is
\* closed again before the failure is returned
SagaCatch_Compensating(k, msg) ==
    /\ stepStatus' = [stepStatus EXCEPT ![k] = "failed"]
    /\ stepErr' = [stepErr EXCEPT ![k] = Some(msg)]
    /\ SagaReturn(SagaFailure(msg))
    /\ chain' = chain \ {"CreateSlab"}
    /\ ledger' = IF "CreateSlab" \in chain THEN Append(ledger, "CloseSlab") ELSE ledger

\* catch (error) { return { success: false, error: error.message } }
SagaCatch(k, msg) ==
    /\ stepStatus' = [stepStatus EXCEPT ![k] = "failed"]
    /\ stepErr' = [stepErr EXCEPT ![k] = Some(msg)]
    /\ SagaReturn(SagaFailure(msg))
    /\ UNCHANGED <<chain, ledger>>

SagaStart ==
    /\ sagaStep = 0
    /\ sagaStep' = 1
    /\ sagaPhase' = FirstPhase(1)
    /\ UNCHANGED <<stepStatus, stepErr, sagaExec, sagaResult>>
    /\ UNCHANGED <<sendVars, chainVars, cacheVars>>
    /\ UNCHANGED <<tableVars, buildVars, raceVars, appVars>>

\* connection.getMinimumBalanceForRentExemption (steps 1 and 6)
SagaRent ==
    /\ sagaStep \in {1, 6}
    /\ sagaPhase = "rent"
    /\ \/ /\ sagaPhase' = "blockhash"
          /\ UNCHANGED <<sagaStep, stepStatus, stepErr, sagaResult, chain, ledger>>
       \/ \E m \in ErrMsgs : SagaCatch(sagaStep, m)
    /\ UNCHANGED <<sagaExec, unconfirmed, sendVars, cacheVars>>
    /\ UNCHANGED <<tableVars, buildVars, raceVars, appVars>>

\* connection.getLatestBlockhash of an inline step
SagaBlockhash ==
    /\ sagaStep \in RawSteps
    /\ sagaPhase = "blockhash"
    /\ \/ /\ sagaPhase' = "sign"
          /\ UNCHANGED <<sagaStep, stepStatus, stepErr, sagaResult, chain, ledger>>
       \/ \E m \in ErrMsgs : SagaCatch(sagaStep, m)
    /\ UNCHANGED <<sagaExec, unconfirmed, sendVars, cacheVars>>
    /\ UNCHANGED <<tableVars, buildVars, raceVars, appVars>>

\* wallet.signTransaction of an inline step
SagaSign ==
    /\ sagaStep \in RawSteps
    /\ sagaPhase = "sign"
    /\ \/ /\ sagaPhase' = "submit"
          /\ UNCHANGED <<sagaStep, stepStatus, stepErr, sagaResult, chain, ledger>>
       \/ \E m \in ErrMsgs : SagaCatch(sagaStep, m)
    /\ UNCHANGED <<sagaExec, unconfirmed, sendVars, cacheVars>>
    /\ UNCHANGED <<tableVars, buildVars, raceVars, appVars>>

\* SagaSubmit without the await of the confirmation: the saga moves on to
\* the next step as soon as the node accepted the transaction
SagaSubmit_NoAwait ==
    /\ sagaStep \in RawSteps
    /\ sagaPhase = "submit"
    /\ \/ /\ Len(ledger) < MaxSigs
          /\ \E exec \in ExecOutcomes(SagaKinds[sagaStep]) :
                /\ Submit(SagaKinds[sagaStep], exec)
                /\ sagaExec' = exec
          /\ Advance(sagaStep)
          /\ UNCHANGED <<stepStatus, stepErr>>
       \/ /\ \E m \in ErrMsgs : SagaCatch(sagaStep, m)
          /\ UNCHANGED <<sagaExec, unconfirmed>>
    /\ UNCHANGED <<sendVars, cacheVars>>
    /\ UNCHANGED <<tableVars, buildVars, raceVars, appVars>>

\* connection.sendRawTransaction(signed.serialize()) of an inline step
SagaSubmit ==
    /\ sagaStep \in RawSteps
    /\ sagaPhase = "submit"
    /\ \/ /\ Len(ledger) < MaxSigs
          /\ \E exec \in ExecOutcomes(SagaKinds[sagaStep]) :
                /\ Submit(SagaKinds[sagaStep], exec)
                /\ sagaExec' = exec
          /\ sagaPhase' = "confirm"
          /\ UNCHANGED <<sagaStep, stepStatus, stepErr, sagaResult>>
       \/ /\ \E m \in ErrMsgs : SagaCatch(sagaStep, m)
          /\ UNCHANGED <<sagaExec, unconfirmed>>
    /\ UNCHANGED <<sendVars, cacheVars>>
    /\ UNCHANGED <<tableVars, buildVars, raceVars, appVars>>

\* await connection.confirmTransaction(...) of an inline step; the returned
\* confirmation (value.err) is not looked at
SagaConfirm ==
    /\ sagaStep \in RawSteps
    /\ sagaPhase = "confirm"
    /\ \/ /\ stepStatus' = [stepStatus EXCEPT ![sagaStep] =
                               IF sagaExec = Null THEN "ok" ELSE "failed"]
          /\ stepErr' = [stepErr EXCEPT ![sagaStep] =
                            IF sagaExec = Null THEN Null
                            ELSE Some(JsonStringify(sagaExec[1]))]
          /\ Advance(sagaStep)
          /\ UNCHANGED <<chain, ledger>>
       \/ \E m \in ErrMsgs : SagaCatch(sagaStep, m)
    /\ ConfirmOver(Len(ledger))
    /\ UNCHANGED <<sagaExec, sendVars, cacheVars>>
    /\ UNCHANGED <<tableVars, buildVars, raceVars, appVars>>

\* client.buildInitMarketTx / buildSetOracleAuthorityTx /
\* buildPushOraclePriceTx / buildInitLpTx, then client.sendTransaction
SagaBuild ==
    /\ sagaStep \in ClientSteps
    /\ sagaPhase = "build"
    /\ txPc \in {"idle", "returned"}
    /\ \/ /\ BeginSend("saga", SagaKinds[sagaStep])
          /\ sagaPhase' = "send"
          /\ UNCHANGED <<sagaStep, stepStatus, stepErr, sagaResult, chain, ledger>>
       \/ /\ \E m \in ErrMsgs : SagaCatch(sagaStep, m)
          /\ UNCHANGED sendVars
    /\ UNCHANGED <<sagaExec, unconfirmed, cacheVars>>
    /\ UNCHANGED <<tableVars, buildVars, raceVars, appVars>>

\* the saga looks at the TxResult of a client step
\*   step 3: if (initResult.error) return { success: false, ... }
\*   steps 4, 5, 7: if (result.error) console.warn(...)
SagaCheck(k, result) ==
    /\ stepStatus' = [stepStatus EXCEPT ![k] = IF result.error = Null THEN "ok" ELSE "failed"]
    /\ stepErr' = [stepErr EXCEPT ![k] = result.error]
    /\ IF k = 3 /\ Truthy(result.error)
          THEN SagaReturn(SagaFailure("InitMarket failed: " \o result.error[1]))
          ELSE Advance(k)

SagaResume ==
    /\ sagaStep \in ClientSteps
    /\ sagaPhase = "send"
    /\ txPc = "returned"
    /\ txCaller = "saga"
    /\ SagaCheck(sagaStep, txResult)
    /\ UNCHANGED <<sagaExec, sendVars, chainVars, cacheVars>>
    /\ UNCHANGED <<tableVars, buildVars, raceVars, appVars>>

SagaSteps ==
    \/ SagaStart
    \/ SagaRent
    \/ SagaBlockhash
    \/ SagaSign
    \/ SagaSubmit
    \/ SagaConfirm
    \/ SagaBuild
    \/ SagaResume

(***************************************************************************)
(* launchTokenWithPercolator (src/unnamed/part_002)                        *)
(***************************************************************************)
\* what createPumpFunToken resolves to: success with the mint address, or a
\* failure with a message (its whole body is inside try/catch)
TokenResults ==
    {[success |-> TRUE, mintAddress |-> Some("mint"), error |-> Null]}
    \cup {[success |-> FALSE, mintAddress |-> Null, error |-> Some(m)] : m \in ErrMsgs}

\* if (!tokenResult.success || !tokenResult.mintAddress)
TokenFailed(token) == ~token.success \/ token.mintAddress = Null

DefaultPriceE6 == 1000
SolUsd == 170

\* initialPriceE6 after step 2; priceData carries priceInSol in millionths of a
\* SOL, so that priceInSol * 170 * 1_000_000 is priceData[1] * 170
InitialPrice(threw, priceData) ==
    IF ~threw /\ priceData # Null /\ priceData[1] > 0
        THEN priceData[1] * SolUsd
        ELSE DefaultPriceE6

\* the result reporting a market for every launch
FullLaunchResult_AlwaysCreated(token, percolator) ==
    [success |-> token.success, mintAddress |-> token.mintAddress, error |-> token.error,
     percolatorMarketCreated |-> TRUE,
     percolatorSlabAddress |-> IF percolator # Null THEN percolator[1].slabAddress ELSE Null]

\* { ...tokenResult, percolatorMarketCreated, percolatorSlabAddress? }; percolator
\* is Null where the function returns before createPercolatorMarket
FullLaunchResult(token, percolator) ==
    [success |-> token.success, mintAddress |-> token.mintAddress, error |-> token.error,
     percolatorMarketCreated |-> percolator # Null /\ percolator[1].success,
     percolatorSlabAddress |-> IF percolator # Null /\ percolator[1].success
                                  THEN percolator[1].slabAddress ELSE Null]

LaunchStart ==
    /\ launchPc = "idle"
    /\ launchPc' = "token"
    /\ UNCHANGED <<tokenResult, initialPriceE6, launchResult, panelVars, registryVars>>
    /\ UNCHANGED <<sendVars, chainVars, cacheVars, sagaVars, tableVars, buildVars, raceVars>>

\* step 1: createPumpFunToken resolves
LaunchToken ==
    /\ launchPc = "token"
    /\ \E token \in TokenResults :
          /\ tokenResult' = Some(token)
          /\ IF TokenFailed(token)
                THEN /\ launchResult' = Some(FullLaunchResult(token, Null))
                     /\ launchPc' = "returned"
                ELSE /\ launchPc' = "price"
                     /\ UNCHANGED launchResult
    /\ UNCHANGED <<initialPriceE6, panelVars, registryVars>>
    /\ UNCHANGED <<sendVars, chainVars, cacheVars, sagaVars, tableVars, buildVars, raceVars>>

\* step 2 resolves (getPumpFunPrice inside its own try/catch) and step 3
\* calls createPercolatorMarket
LaunchCreateMarket ==
    /\ launchPc = "price"
    /\ sagaStep = 0
    /\ \E threw \in BOOLEAN, priceData \in {Null, Some(0), Some(10)} :
          initialPriceE6' = Some(InitialPrice(threw, priceData))
    /\ launchPc' = "market"
    /\ sagaStep' = 1
    /\ sagaPhase' = FirstPhase(1)
    /\ UNCHANGED <<stepStatus, stepErr, sagaExec, sagaResult>>
    /\ UNCHANGED <<tokenResult, launchResult, panelVars, registryVars>>
    /\ UNCHANGED <<sendVars, chainVars, cacheVars, tableVars, buildVars, raceVars>>

\* createPercolatorMarket has resolved: the function returns
LaunchReturn ==
    /\ launchPc = "market"
    /\ sagaResult # Null
    /\ launchResult' = Some(FullLaunchResult(tokenResult[1], sagaResult))
    /\ launchPc' = "returned"
    /\ UNCHANGED <<tokenResult, initialPriceE6, panelVars, registryVars>>
    /\ UNCHANGED <<sendVars, chainVars, cacheVars, sagaVars, tableVars, buildVars, raceVars>>

(***************************************************************************)
(* createFundraise (src/lib/tokenRegistry.ts) on the table fundraises      *)
(***************************************************************************)
\* the arguments the fundraiser component calls createFundraise with; goalSol
\* is the slab rent plus fees as the caller saw it. createdAt (Date.now()) is
\* left out of rows and objects
FundraiseArgs == [tokenMint : {"mint"}, goalSol : {7, 8}, createdBy : Owners]

\* the object getFundraise builds from a row (no pledges yet)
RowToFundraise(row) ==
    [tokenMint |-> row.token_mint, goalSol |-> row.goal_sol, createdBy |-> row.created_by,
     pledges |-> <<>>, enabled |-> row.enabled]

\* getFundraise: null on an error of the select or when there is no row
GetFundraise(tokenMint, selectOk) ==
    LET rows == SelectSeq(fundraises, LAMBDA row : row.token_mint = tokenMint)
    IN IF selectOk /\ Len(rows) = 1 THEN Some(RowToFundraise(rows[1])) ELSE Null

\* the table after supabase.from('fundraises').insert(...): token_mint is
\* UNIQUE, so a second row for the mint is refused, as is any insert that fails
Inserted(args, insertOk) ==
    IF insertOk /\ \A i \in 1..Len(fundraises) : fundraises[i].token_mint # args.tokenMint
        THEN Append(fundraises, [token_mint |-> args.tokenMint, goal_sol |-> args.goalSol,
                                 created_by |-> args.createdBy, enabled |-> FALSE])
        ELSE fundraises

\* the object createFundraise returns after its insert
LocalFundraise(args) ==
    [tokenMint |-> args.tokenMint, goalSol |-> args.goalSol, createdBy |-> args.createdBy,
     pledges |-> <<>>, enabled |-> FALSE]

\* handleStartFundraise calls createFundraise
CallCreateFundraise(p) ==
    /\ frPc[p] = "idle"
    /\ \E args \in FundraiseArgs : frArgs' = [frArgs EXCEPT ![p] = Some(args)]
    /\ frPc' = [frPc EXCEPT ![p] = "getFundraise"]
    /\ frResult' = [frResult EXCEPT ![p] = Null]
    /\ UNCHANGED <<fundraises, panelVars, launchVars>>
    /\ UNCHANGED <<sendVars, chainVars, cacheVars, sagaVars, tableVars, buildVars, raceVars>>

\* const existing = await getFundraise(tokenMint); if (existing) return existing
FundraiseChecked(p) ==
    /\ frPc[p] = "getFundraise"
    /\ \E selectOk \in BOOLEAN :
          LET existing == GetFundraise(frArgs[p][1].tokenMint, selectOk)
          IN IF existing # Null
                THEN /\ frResult' = [frResult EXCEPT ![p] = existing]
                     /\ frPc' = [frPc EXCEPT ![p] = "idle"]
                ELSE /\ frPc' = [frPc EXCEPT ![p] = "insert"]
                     /\ UNCHANGED frResult
    /\ UNCHANGED <<fundraises, frArgs, panelVars, launchVars>>
    /\ UNCHANGED <<sendVars, chainVars, cacheVars, sagaVars, tableVars, buildVars, raceVars>>

\* the insert resolves; its error is logged and the local object is returned
FundraiseInserted(p) ==
    /\ frPc[p] = "insert"
    /\ \E insertOk \in BOOLEAN : fundraises' = Inserted(frArgs[p][1], insertOk)
    /\ frResult' = [frResult EXCEPT ![p] = Some(LocalFundraise(frArgs[p][1]))]
    /\ frPc' = [frPc EXCEPT ![p] = "idle"]
    /\ UNCHANGED <<frArgs, panelVars, launchVars>>
    /\ UNCHANGED <<sendVars, chainVars, cacheVars, sagaVars, tableVars, buildVars, raceVars>>

InitWith(c, slab, table) ==
    /\ chainTable = table
    /\ view = Null
    /\ lastBuild = Null
    /\ racePc = [p \in Callers |-> "idle"]
    /\ raceResp = [p \in Callers |-> Null]
    /\ raceBuilt = [p \in Callers |-> Null]
    /\ chainVer = 0
    /\ cacheVer = 0
    /\ arrivedVer = 0
    /\ newestVer = 0
    /\ txPc = "idle"
    /\ txCaller = "none"
    /\ txKind = "InitMarket"
    /\ txCalls = <<>>
    /\ txSig = ""
    /\ txExec = Null
    /\ txConfErr = Null
    /\ txParsed = Null
    /\ txResult = NoResult
    /\ chain = c
    /\ ledger = <<>>
    /\ unconfirmed = {}
    /\ slabData = Null
    /\ marketConfig = Null
    /\ chainSlab = slab
    /\ lastCall = Null
    /\ sagaStep = 0
    /\ sagaPhase = "idle"
    /\ stepStatus = [k \in 1..7 |-> "none"]
    /\ stepErr = [k \in 1..7 |-> Null]
    /\ sagaExec = Null
    /\ sagaResult = Null
    /\ panelUserIdx = Null
    /\ hasAccount = FALSE
    /\ status = Null
    /\ openPc = NotOpening
    /\ openLog = <<>>
    /\ launchPc = "idle"
    /\ tokenResult = Null
    /\ initialPriceE6 = Null
    /\ launchResult = Null
    /\ fundraises = <<>>
    /\ frPc = [p \in Callers |-> "idle"]
    /\ frArgs = [p \in Callers |-> Null]
    /\ frResult = [p \in Callers |-> Null]

\* a freshly constructed client; nothing of the new market exists on chain
InitState(c, slab) == InitWith(c, slab, EmptyTable)

Init == InitState({}, <<1, 0, 0>>)

\* a client constructed for a slab in any stage of its bootstrap
InitSend ==
    \E c \in {{}, {"CreateSlab", "CreateVault"},
              {"CreateSlab", "CreateVault", "InitMarket"},
              {"CreateSlab", "CreateVault", "InitMarket", "SetOracleAuthority"}} :
        InitState(c, <<1, 0, 0>>)

\* a client constructed for any account address: the account's data may be
\* a slab or something shorter
InitCache == \E slab \in Slabs : InitState({}, slab)

(***************************************************************************)
(* Properties of sendTransaction                                           *)
(***************************************************************************)
\* tables that differ in which slots are used, by whom, and with what size
StructTables ==
    {[bitmap |-> [i \in SlotIds |-> f[i].used],
      accounts |-> [i \in SlotIds |->
          Account("User", f[i].owner, 1000000, f[i].size,
                  IF f[i].size = 0 THEN 0 ELSE 1000000)]] :
     f \in [SlotIds -> [used : BOOLEAN, owner : Owners, size : Sizes]]}

\* tables with one used slot whose amounts take every sign
NumTables ==
    {[bitmap |-> [i \in SlotIds |-> i = 0],
      accounts |-> [i \in SlotIds |-> IF i = 0 THEN a ELSE ZeroAccount]] :
     a \in {Account(k, "alice", c, p, e) :
            k \in {"User", "LP"}, c \in {0 - 1000000, 0, 1000000, 3000000},
            p \in {0 - 2000000, 1500000, 2000000},
            e \in {0 - 1, 0, 1, 1000000}}}

\* tables of a market whose creator holds the LP slot of the bootstrap (slot 0)
\* and may hold a user slot as well
CreatorTables ==
    {[bitmap |-> [i \in SlotIds |-> i = 0 \/ f[i].used],
      accounts |-> [i \in SlotIds |->
          IF i = 0 THEN Account("LP", "alice", 1000000, 0, 0)
          ELSE Account("User", f[i].owner, 1000000, f[i].size,
                       IF f[i].size = 0 THEN 0 ELSE 1000000)]] :
     f \in [SlotIds -> [used : BOOLEAN, owner : Owners, size : Sizes]]}

InitTable ==
    \E slab \in Slabs, table \in StructTables \cup NumTables \cup CreatorTables :
        InitWith({}, slab, table)

\* an LP account in slot 0 for the trade builders to read
LpTable ==
    [bitmap |-> [i \in SlotIds |-> i = 0],
     accounts |-> [i \in SlotIds |->
         IF i = 0 THEN Account("LP", "bob", 1000000, 0, 0) ELSE ZeroAccount]]

InitBuild == \E slab \in Slabs : InitWith({}, slab, LpTable)

\* a market whose account table is still empty
InitLife == InitWith({}, <<1, 0, 0>>, EmptyTable)

SendOrder == <<"getLatestBlockhash", "signTransaction", "serialize",
               "sendRawTransaction", "confirmTransaction", "getTransaction">>

CallFailed(op) == \E i \in 1..Len(txCalls) : txCalls[i].op = op /\ ~txCalls[i].ok
CallOk(op) == \E i \in 1..Len(txCalls) : txCalls[i].op = op /\ txCalls[i].ok
TimesCalled(op) == Cardinality({i \in 1..Len(txCalls) : txCalls[i].op = op})
SendOver == txPc \in {"returned", "idle"}

\* C2: sendTransaction never throws to its caller; as soon as any
\* collaborator call inside it has failed, the call has resolved to a
\* TxResult whose error is a string (not null).
C2_NeverThrows ==
    /\ txPc # "thrown"
    /\ (\E op \in {SendOrder[i] : i \in 1..6} : CallFailed(op)) =>
          /\ SendOver
          /\ txResult.set
          /\ txResult.error # Null
          /\ txResult.error[1] \in STRING

\* C2 witness: the last collaborator, getTransaction, threw and the call
\* still resolved to a result.
C2_Witness == txPc = "returned" /\ CallFailed("getTransaction") /\ txResult.set

\* C3: a result with error == null means the transaction was submitted and
\* its confirmation reported no execution error, and it carries the
\* signature; no result has an empty signature together with error == null.
C3_SuccessShape ==
    txResult.set =>
        /\ txResult.error = Null =>
              /\ CallOk("sendRawTransaction")
              /\ CallOk("confirmTransaction")
              /\ txConfErr = Null
              /\ txExec = Null
              /\ txResult.signature = txSig
        /\ ~(txResult.signature = "" /\ txResult.error = Null)

\* C3 witness: a call resolved to success.
C3_Witness == txResult.set /\ txResult.error = Null /\ txResult.signature # ""

\* C4: the collaborator calls of one sendTransaction call are a prefix of
\* blockhash, sign, serialize, submit, confirm, getTransaction, and every
\* call but the last one succeeded: nothing runs after a failed step.
C4_LinearOrder ==
    /\ Len(txCalls) <= 6
    /\ \A i \in 1..Len(txCalls) :
          /\ txCalls[i].op = SendOrder[i]
          /\ (i < Len(txCalls) => txCalls[i].ok)

\* C4 witness: signing failed; the call is over and nothing was submitted.
C4_Witness == SendOver /\ CallFailed("signTransaction") /\ txSig = ""

\* C5: after an execution error whose logs were fetched, a decoded error
\* gives "<name> (0x<code>)" and the decoded hint; an undecodable one gives
\* the raw chain-reported error and no hint.
C5_DecodedFailure ==
    (txResult.set /\ txConfErr # Null /\ CallOk("getTransaction")) =>
        /\ txResult.signature = txSig
        /\ IF txParsed # Null
              THEN /\ txResult.error = Some(ErrorName(txParsed[1].code) \o " (0x"
                                             \o ToHex(txParsed[1].code) \o ")")
                   /\ txResult.hint = txParsed[1].hint
                   /\ txParsed[1].code = 4 =>
                         /\ txResult.error = Some("EngineInsufficientBalance (0x4)")
                         /\ txResult.hint = Some("Deposit more collateral")
                   /\ txParsed[1].code = 13 =>
                         /\ txResult.error = Some("EngineUndercollateralized (0xd)")
                         /\ txResult.hint = Null
              ELSE /\ txResult.error = Some(JsonStringify(txConfErr[1]))
                   /\ txResult.hint = Null

\* C5 witness: an execution error was decoded to a name with a hint.
C5_Witness ==
    /\ txResult.set /\ txConfErr # Null /\ txParsed # Null
    /\ txResult.hint = Some("Deposit more collateral")

\* C6: sign, submit and confirm are each invoked at most once per call, and
\* a failed submit or confirm ends the call with a failure result.
C6_NoRetry ==
    /\ \A op \in {"signTransaction", "sendRawTransaction", "confirmTransaction"} :
          TimesCalled(op) <= 1
    /\ (CallFailed("sendRawTransaction") \/ CallFailed("confirmTransaction")) =>
          (SendOver /\ txResult.set /\ txResult.error # Null)

\* C6 witness: the submit failed and the call ended.
C6_Witness == SendOver /\ CallFailed("sendRawTransaction") /\ TimesCalled("sendRawTransaction") = 1

(***************************************************************************)
(* Properties of the slab cache                                            *)
(***************************************************************************)
\* C7 as stated: every read accessor fetches exactly once when called on an
\* empty cache (no bytes, no config) and does not fetch when called on a
\* populated one (bytes and config).
C7_AllAccessorsLazy ==
    (lastCall # Null /\ lastCall[1].op \in Accessors) =>
        /\ (~lastCall[1].hadSlab /\ ~lastCall[1].hadConfig) => lastCall[1].fetches = 1
        /\ (lastCall[1].hadSlab /\ lastCall[1].hadConfig) => lastCall[1].fetches = 0

\* C7 amended: getMarketConfig fetches exactly once when no cached
\* MarketConfig exists and not at all when one exists; getEngineState
\* fetches exactly once when no cached slab bytes exist and not at all when
\* they exist; getMarketInfo, findUserAccount and getAllPositions fetch
\* exactly once on every call, cached copy or not.
C7_LazyOnlyConfigAndEngine ==
    lastCall # Null =>
        LET c == lastCall[1]
        IN /\ c.op = "getMarketConfig" => c.fetches = IF c.hadConfig THEN 0 ELSE 1
           /\ c.op = "getEngineState" => c.fetches = IF c.hadSlab THEN 0 ELSE 1
           /\ c.op \in {"getMarketInfo", "findUserAccount", "getAllPositions"} =>
                 c.fetches = 1

\* C7 witness: getAllPositions was called on a populated cache and fetched.
C7_Witness ==
    /\ lastCall # Null
    /\ lastCall[1].op = "getAllPositions"
    /\ lastCall[1].hadSlab /\ lastCall[1].hadConfig
    /\ lastCall[1].fetches = 1

\* C8: between calls the cached bytes and the cached MarketConfig are both
\* absent, or both present with the config being the parse of those bytes.
C8_CacheWholesale ==
    \/ slabData = Null /\ marketConfig = Null
    \/ slabData # Null /\ marketConfig # Null /\ marketConfig = ParseConfig(slabData[1])

(***************************************************************************)
(* Properties of the market-bootstrap saga                                 *)
(***************************************************************************)
StepOf(kind) == CHOOSE k \in 1..7 : SagaKinds[k] = kind

\* C1: once a step has failed, no later step's transaction is on the
\* ledger and the saga has returned a failure carrying the error of the
\* first failing step.
C1_StopsAtFirstFailure ==
    \A k \in 1..7 :
        stepStatus[k] = "failed" =>
            /\ \A i \in 1..Len(ledger) : StepOf(ledger[i]) <= k
            /\ sagaResult # Null
            /\ ~sagaResult[1].success
            /\ (\A j \in 1..(k - 1) : stepStatus[j] # "failed") =>
                  sagaResult[1].error \in
                      {stepErr[k], Some("InitMarket failed: " \o stepErr[k][1])}

C10_NoCompensation ==
    [][/\ chain \subseteq chain'
       /\ \A i \in 1..Len(ledger') : ledger'[i] \in TxKinds
       /\ \A k \in 1..7 : (stepStatus[k] = "ok" /\ sagaStep' = 8) => SagaKinds[k] \in chain']_vars

\* C10 witness: the saga failed after slab, vault and market had been
\* created, and they are still there.
C10_Witness ==
    /\ sagaStep = 8
    /\ sagaResult # Null
    /\ ~sagaResult[1].success
    /\ {"CreateSlab", "CreateVault", "InitMarket"} \subseteq chain
    /\ stepStatus[6] = "failed"

\* C11: when the saga returns a failure after its slab account was created
\* on chain, the failure result carries the address of that slab.
C11_FailureNamesSlab ==
    (sagaResult # Null /\ ~sagaResult[1].success /\ "CreateSlab" \in chain) =>
        sagaResult[1].slabAddress # Null

\* C13: the accounts of getMarketInfo are exactly the used slots, each once,
\* each with its bitmap position as idx and that slot's account; findUserAccount
\* returns a used slot owned by the queried owner with its slot index, and
\* null only when no used slot has that owner.
C13_OnlyUsedSlotsWithIndex ==
    /\ ViewOk("getMarketInfo") =>
          LET accounts == view[1].value[1].accounts
          IN /\ \A i \in SlotIds : chainTable.bitmap[i] <=>
                    Cardinality({k \in 1..Len(accounts) : accounts[k].idx = i}) = 1
             /\ \A k \in 1..Len(accounts) :
                    /\ accounts[k].idx \in SlotIds
                    /\ chainTable.bitmap[accounts[k].idx]
                    /\ accounts[k].account = chainTable.accounts[accounts[k].idx]
    /\ ViewOk("findUserAccount") =>
          LET found == view[1].value[1]
          IN IF found = Null
                THEN \A i \in SlotIds :
                        chainTable.bitmap[i] => chainTable.accounts[i].owner # view[1].owner
                ELSE /\ found[1].idx \in SlotIds
                     /\ chainTable.bitmap[found[1].idx]
                     /\ found[1].account = chainTable.accounts[found[1].idx]
                     /\ found[1].account.owner = view[1].owner

\* findUserAccount passed over a free slot 0 that still holds the owner's data
C13_Witness ==
    /\ ViewOk("findUserAccount")
    /\ view[1].value[1] # Null
    /\ view[1].value[1][1].idx >= 1
    /\ ~chainTable.bitmap[0]
    /\ chainTable.accounts[0].owner = view[1].owner

\* the positions a successful getAllPositions returned
Positions == IF ViewOk("getAllPositions") THEN view[1].value[1] ELSE <<>>

PositionsAt(i) == {k \in 1..Len(Positions) : Positions[k].index = i}

\* C14: getAllPositions returns exactly the used slots whose positionSize is
\* not zero, long or short, each once and with its slot index and its data; a
\* used slot of size zero is among the accounts of getMarketInfo and not among
\* the positions.
C14_OpenPositionsOnly ==
    /\ ViewOk("getAllPositions") =>
          /\ \A i \in SlotIds :
                Cardinality(PositionsAt(i)) =
                    IF chainTable.bitmap[i] /\ chainTable.accounts[i].positionSize # 0
                        THEN 1 ELSE 0
          /\ \A k \in 1..Len(Positions) :
                /\ Positions[k].index \in SlotIds
                /\ Positions[k].positionSize = chainTable.accounts[Positions[k].index].positionSize
                /\ Positions[k].owner = chainTable.accounts[Positions[k].index].owner
                /\ Positions[k].capital = chainTable.accounts[Positions[k].index].capital
                /\ Positions[k].entryPrice = chainTable.accounts[Positions[k].index].entryPrice
    /\ ViewOk("getMarketInfo") =>
          \A i \in SlotIds :
              (chainTable.bitmap[i] /\ chainTable.accounts[i].positionSize = 0) =>
                  \E k \in 1..Len(view[1].value[1].accounts) :
                      view[1].value[1].accounts[k].idx = i

\* a short position is listed while a used slot of size zero is left out
C14_Witness ==
    /\ ViewOk("getAllPositions")
    /\ \E k \in 1..Len(Positions) : Positions[k].positionSize < 0
    /\ \E i \in SlotIds :
          /\ chainTable.bitmap[i]
          /\ chainTable.accounts[i].positionSize = 0
          /\ PositionsAt(i) = {}

\* C15: for every open position with capital > 0 and entryPrice > 0 the
\* reported leverage is the fraction whose numerator is
\* |positionSize| * entryPrice / 1_000_000 (integer division) and whose
\* denominator is capital; capital 1_000_000, size +2_000_000 and entry price
\* 1_000_000 give leverage exactly 2.
C15_LeverageFormula ==
    \A k \in 1..Len(Positions) :
        LET q == Positions[k]
            size == IF q.positionSize < 0 THEN 0 - q.positionSize ELSE q.positionSize
        IN /\ (q.capital > 0 /\ q.entryPrice > 0) =>
                  /\ q.leverage.den > 0
                  /\ q.leverage.num * q.capital = MulDiv(size, q.entryPrice) * q.leverage.den
           /\ (q.capital = 1000000 /\ q.positionSize = 2000000 /\ q.entryPrice = 1000000) =>
                  q.leverage = [num |-> 2, den |-> 1]

\* a short position of size 2_000_000 is reported with leverage 2
C15_Witness ==
    \E k \in 1..Len(Positions) :
        /\ Positions[k].positionSize = 0 - 2000000
        /\ Positions[k].capital = 1000000
        /\ Positions[k].entryPrice = 1000000
        /\ Positions[k].leverage = [num |-> 2, den |-> 1]

\* C16: an open position with capital <= 0 or entryPrice <= 0 is reported with
\* leverage 0, and no reported leverage is negative.
C16_LeverageZeroOrPositive ==
    \A k \in 1..Len(Positions) :
        /\ (Positions[k].capital <= 0 \/ Positions[k].entryPrice <= 0) =>
              Positions[k].leverage.num = 0
        /\ Positions[k].leverage.num >= 0
        /\ Positions[k].leverage.den > 0

\* a position with negative capital and a positive notional is reported
C16_Witness ==
    \E k \in 1..Len(Positions) :
        /\ Positions[k].capital < 0
        /\ Positions[k].entryPrice > 0
        /\ Positions[k].leverage.num = 0

\* the outcome of the latest builder call, if it returned a transaction
Built(op) == lastBuild # Null /\ lastBuild[1].op = op /\ lastBuild[1].tx # Null

\* C18: every transaction a builder returns holds exactly two instructions:
\* first the compute-budget instruction with a unit limit of 400_000, then the
\* program instruction of that builder.
C18_BudgetThenInstruction ==
    (lastBuild # Null /\ lastBuild[1].tx # Null) =>
        LET tx == lastBuild[1].tx[1]
        IN /\ Len(tx) = 2
           /\ tx[1] = [program |-> "ComputeBudget", units |-> 400000]
           /\ tx[2].program = "percolator"
           /\ tx[2].encoder = Encoder(lastBuild[1].op)
           /\ tx[2].args = lastBuild[1].args

\* buildTradeCpiTx returned a transaction
C18_Witness == Built("TradeCpi") /\ Len(lastBuild[1].tx[1]) = 2

\* the builders that read the market config or an account
ReadingBuilders == {"InitUser", "DepositCollateral", "WithdrawCollateral", "TradeCpi",
                    "TradeNoCpi", "KeeperCrank", "CloseAccount"}

\* C19 as stated: every builder that reads config or account data takes it
\* from a snapshot fetched during that same call.
C19_AlwaysFetchedInCall ==
    (lastBuild # Null /\ lastBuild[1].op \in ReadingBuilders /\ lastBuild[1].tx # Null) =>
        /\ lastBuild[1].cfgFrom = "fetch"
        /\ lastBuild[1].fetches >= 1

\* C19 amended: buildTradeCpiTx takes config and LP account from a snapshot
\* fetched during the call; buildTradeNoCpiTx fetches during the call for the
\* LP account; the config of buildTradeNoCpiTx, buildInitUserTx,
\* buildDepositTx, buildWithdrawTx, buildKeeperCrankTx and buildCloseAccountTx
\* comes from the cache whenever an earlier call left a config there, and
\* from a fetch during the call only when the cache holds none.
C19_FetchedOnlyWhereRefreshed ==
    lastBuild # Null =>
        LET r == lastBuild[1]
        IN /\ (r.op = "TradeCpi" /\ r.tx # Null) =>
                  /\ r.cfgFrom = "fetch"
                  /\ r.fetches = 1
                  /\ r.tx[1][2].keys[5] = r.cfgOnChain
           /\ (r.op = "TradeNoCpi" /\ r.tx # Null) => r.fetches >= 1
           /\ r.op \in ReadingBuilders \ {"TradeCpi"} =>
                  /\ r.cfgFrom = IF r.hadConfig THEN "cache" ELSE "fetch"
                  /\ r.op # "TradeNoCpi" => r.fetches = IF r.hadConfig THEN 0 ELSE 1

\* buildWithdrawTx put the cached feed id into its accounts after the chain's
\* config had changed
C19_Witness ==
    /\ Built("WithdrawCollateral")
    /\ lastBuild[1].cfgFrom = "cache"
    /\ lastBuild[1].fetches = 0
    /\ lastBuild[1].tx[1][2].keys[8] # lastBuild[1].cfgOnChain

\* C20: a builder run in which the slab cannot be fetched or parsed, the LP
\* account cannot be parsed, the encoder fails or buildAccountMetas fails
\* returns no transaction to its caller.
C20_BuildersFailFast ==
    [][(chainSlab' = chainSlab /\ lastBuild' # Null) =>
          LET r == lastBuild'[1]
              fetched == \/ r.op \in {"TradeCpi", "TradeNoCpi"}
                         \/ r.op \in ReadingBuilders /\ marketConfig = Null
          IN /\ (fetched /\ ParseConfig(chainSlab) = Null) => r.tx = Null
             /\ (r.op \in {"TradeCpi", "TradeNoCpi"}
                    /\ ParseAccount(chainSlab, chainTable, r.args.lpIdx) = Null) => r.tx = Null
             /\ r.failed # "none" => r.tx = Null]_vars

\* the slab was fetched and parseAccount of the LP slot then threw
C20_Witness ==
    /\ lastBuild # Null
    /\ lastBuild[1].op = "TradeCpi"
    /\ lastBuild[1].failed = "parseAccount"
    /\ lastBuild[1].tx = Null
    /\ slabData # Null

\* C17: when handleClose's CloseAccount for the position's slot was sent and
\* confirmed without error, the table the next fetch reads no longer has that
\* slot in use, and findUserAccount for the wallet on it does not return that
\* slot index.
C17_ClosedSlotNotFound ==
    [][(/\ Position # Null
        /\ view' = Null
        /\ lastBuild' # Null
        /\ lastBuild'[1].op = "CloseAccount"
        /\ txResult'.set
        /\ txResult'.error = Null) =>
          LET found == FindUserAccount(ParseAllAccounts(chainSlab, chainTable')[1],
                                       Position[1].wallet)
          IN /\ ~chainTable'.bitmap[Position[1].index]
             /\ \A k \in 1..Len(ParseAllAccounts(chainSlab, chainTable')[1]) :
                    ParseAllAccounts(chainSlab, chainTable')[1][k].idx # Position[1].index
             /\ found # Null => found[1].idx # Position[1].index]_vars

\* a close was confirmed without error and the freed slot still holds the
\* wallet's bytes
C17_Witness ==
    /\ lastBuild # Null
    /\ lastBuild[1].op = "CloseAccount"
    /\ lastBuild[1].tx # Null
    /\ txResult.set
    /\ txResult.error = Null
    /\ view = Null
    /\ ~chainTable.bitmap[lastBuild[1].args.userIdx]
    /\ chainTable.accounts[lastBuild[1].args.userIdx].owner = lastBuild[1].wallet

\* C12: with two callers on one client the cache holds whatever response
\* arrived last, even when a newer snapshot had already been received, and
\* buildDepositTx builds from the config of that cache; so a transaction can
\* be built from a config older than data the client has already received.
C12_LastArrivalWins ==
    /\ cacheVer = arrivedVer
    /\ cacheVer <= newestVer
    /\ \A p \in Callers :
          raceBuilt[p] # Null =>
              /\ raceBuilt[p][1].cfgVer <= raceBuilt[p][1].newest
              /\ raceBuilt[p][1].cfg # Null

\* two refreshSlab calls overlapped and the older response arrived last; a
\* caller then built a deposit from that older config, which is not the
\* config on chain
C12_Witness ==
    /\ cacheVer < newestVer
    /\ marketConfig # ParseConfig(chainSlab)
    /\ \E p \in Callers :
          /\ raceBuilt[p] # Null
          /\ raceBuilt[p][1].cfgVer < raceBuilt[p][1].newest
          /\ raceBuilt[p][1].cfg = marketConfig

\* the instruction kind an encoder and a template belong to, by their names
KindOf ==
    [n \in {"encodeInitUser", "ACCOUNTS_INIT_USER"} |-> "InitUser"]
    @@ [n \in {"encodeDepositCollateral", "ACCOUNTS_DEPOSIT_COLLATERAL"} |-> "DepositCollateral"]
    @@ [n \in {"encodeWithdrawCollateral", "ACCOUNTS_WITHDRAW_COLLATERAL"} |-> "WithdrawCollateral"]
    @@ [n \in {"encodeTradeCpi", "ACCOUNTS_TRADE_CPI"} |-> "TradeCpi"]
    @@ [n \in {"encodeTradeNoCpi", "ACCOUNTS_TRADE_NOCPI"} |-> "TradeNoCpi"]
    @@ [n \in {"encodeKeeperCrank", "ACCOUNTS_KEEPER_CRANK"} |-> "KeeperCrank"]
    @@ [n \in {"encodeCloseAccount", "ACCOUNTS_CLOSE_ACCOUNT"} |-> "CloseAccount"]
    @@ [n \in {"encodeInitMarket", "ACCOUNTS_INIT_MARKET"} |-> "InitMarket"]
    @@ [n \in {"encodeInitLP", "ACCOUNTS_INIT_LP"} |-> "InitLP"]
    @@ [n \in {"encodeSetOracleAuthority", "ACCOUNTS_SET_ORACLE_AUTHORITY"} |-> "SetOracleAuthority"]
    @@ [n \in {"encodePushOraclePrice", "ACCOUNTS_PUSH_ORACLE_PRICE"} |-> "PushOraclePrice"]
    @@ [n \in {"encodeTopUpInsurance", "ACCOUNTS_TOPUP_INSURANCE"} |-> "TopUpInsurance"]

\* C21: in every transaction a builder returns, the instruction data come from
\* the encoder of the same instruction kind as the account template handed to
\* buildAccountMetas, and that kind is the builder's own.
C21_EncoderMatchesTemplate ==
    (lastBuild # Null /\ lastBuild[1].tx # Null) =>
        LET ix == lastBuild[1].tx[1][Len(lastBuild[1].tx[1])]
        IN /\ ix.encoder \in DOMAIN KindOf
           /\ ix.template \in DOMAIN KindOf
           /\ KindOf[ix.encoder] = KindOf[ix.template]
           /\ KindOf[ix.encoder] = lastBuild[1].op

\* buildDepositTx returned a transaction whose data and template are both of
\* kind DepositCollateral
C21_Witness ==
    /\ Built("DepositCollateral")
    /\ lastBuild[1].tx[1][2].encoder = "encodeDepositCollateral"
    /\ lastBuild[1].tx[1][2].template = "ACCOUNTS_DEPOSIT_COLLATERAL"

\* C22: the saga returns success only when the transaction of each of its
\* seven steps was confirmed without an execution error, so that on success
\* the market is initialised, the oracle authority set, a price pushed and
\* the LP initialised.
C22_SuccessMeansAllConfirmed ==
    (sagaResult # Null /\ sagaResult[1].success) =>
        /\ \A k \in 1..7 : stepStatus[k] = "ok"
        /\ {"InitMarket", "SetOracleAuthority", "PushOraclePrice", "InitLP"} \subseteq chain

\* C23: once sendRawTransaction has returned a signature during a
\* sendTransaction call, the TxResult that call returns carries that signature,
\* whatever happens afterwards (confirmTransaction or getTransaction throwing).
C23_SignatureKept ==
    (txPc = "returned" /\ txResult.set /\ CallOk("sendRawTransaction")) =>
        txResult.signature = txSig

\* C24: the slot findUserAccount returns for an owner is of kind User, never an
\* LP slot, also when that owner holds both an LP slot and a user slot.
C24_FoundSlotIsUser ==
    (ViewOk("findUserAccount") /\ view[1].value[1] # Null) =>
        view[1].value[1][1].account.kind = "User"

\* C25: the account list of buildTradeNoCpiTx comes from one slab snapshot: the
\* oracle feed key it holds is the feed id of the bytes the call fetched for the
\* LP account, whether the cache was empty or populated before the call.
C25_FeedFromLpSnapshot ==
    Built("TradeNoCpi") =>
        lastBuild[1].tx[1][2].keys[5] = lastBuild[1].cfgOnChain

\* C26: handleClose builds and sends CloseAccount for a slot only when the
\* account most recently fetched for the wallet in that slot has
\* positionSize = 0.
C26_CloseOnlyFlatAccount ==
    [][(/\ Position # Null
        /\ view' = Null
        /\ lastBuild' # Null
        /\ lastBuild'[1].op = "CloseAccount"
        /\ lastBuild'[1].tx # Null
        /\ txResult'.set) =>
          /\ view[1].value[1][1].idx = lastBuild'[1].args.userIdx
          /\ view[1].value[1][1].account.positionSize = 0]_vars

\* C27: sendTransaction asks for the latest blockhash once; the transaction
\* handed to the wallet carries that blockhash and has the wallet as fee payer;
\* confirmation is awaited with the blockhash and lastValidBlockHeight of that
\* same answer and with the signature sendRawTransaction returned.
C27_OneBlockhash ==
    /\ TimesCalled("getLatestBlockhash") <= 1
    /\ \A i \in 1..Len(txCalls) :
          /\ (txCalls[i].op = "signTransaction" /\ txCalls[i].ok) =>
                /\ txCalls[1].op = "getLatestBlockhash"
                /\ txCalls[i].io.recentBlockhash = txCalls[1].io.blockhash
                /\ txCalls[i].io.feePayer = txCalls[i].io.wallet
          /\ (txCalls[i].op = "confirmTransaction" /\ txCalls[i].ok) =>
                /\ txCalls[i].io.signature = txSig
                /\ txCalls[i].io.blockhash = txCalls[1].io.blockhash
                /\ txCalls[i].io.lastValidBlockHeight =
                       txCalls[1].io.lastValidBlockHeight

\* a second sendTransaction of a session was confirmed: the chain had moved on
\* since its blockhash was fetched, and the blockhash differs from the first one's
C27_Witness ==
    /\ CallOk("confirmTransaction")
    /\ txCalls[1].io.blockhash > 0
    /\ LatestBlockhash.blockhash > txCalls[1].io.blockhash

\* C28: handleOpenPosition sends in the order wrap, deposit, trade: a deposit
\* is sent only after the wrap's confirmation was awaited, and a trade is sent
\* only after the deposit's sendTransaction returned error = null.
C28_TradeOnlyAfterDepositOk ==
    \A i \in 1..Len(openLog) :
        /\ openLog[i].step = "wrap" => i = 1
        /\ openLog[i].step = "deposit" =>
              /\ i = 2
              /\ openLog[1].step = "wrap"
              /\ openLog[1].awaited
        /\ openLog[i].step = "trade" =>
              /\ i = 3
              /\ openLog[2].step = "deposit"
              /\ openLog[2].error = Null

\* C29: in every result of launchTokenWithPercolator percolatorMarketCreated
\* is true only if the token was created and createPercolatorMarket returned
\* success; percolatorSlabAddress is present exactly when
\* percolatorMarketCreated is true; and createPercolatorMarket is never
\* started after a failed token creation.
C29_MarketOnlyAfterToken ==
    /\ launchResult # Null =>
          /\ launchResult[1].percolatorMarketCreated =>
                /\ ~TokenFailed(tokenResult[1])
                /\ sagaResult # Null
                /\ sagaResult[1].success
          /\ (launchResult[1].percolatorSlabAddress # Null)
                <=> launchResult[1].percolatorMarketCreated
    /\ (tokenResult # Null /\ TokenFailed(tokenResult[1])) =>
          /\ sagaStep = 0
          /\ ledger = <<>>

\* a launch returned with its market created, at a price read from the curve
C29_Witness ==
    /\ launchResult # Null
    /\ launchResult[1].percolatorMarketCreated
    /\ launchResult[1].percolatorSlabAddress = Some("slab")
    /\ launchResult[1].mintAddress = Some("mint")
    /\ initialPriceE6 # Some(DefaultPriceE6)

\* C30: however createFundraise calls for one token mint follow or overlap
\* each other, at most one fundraise is stored for the mint and every call
\* returns a Fundraise equal to the stored one (same goal and creator).
C30_FundraiseIdempotent ==
    /\ Len(fundraises) <= 1
    /\ \A p \in Callers :
          frResult[p] # Null =>
              /\ Len(fundraises) = 1
              /\ frResult[p][1] = RowToFundraise(fundraises[1])

SendNext == CallSend \/ SendSteps \/ ResumeCaller

SpecSend == InitSend /\ [][SendNext]_vars

SagaNext == SagaSteps \/ SendSteps

SpecSaga == Init /\ [][SagaNext]_vars

CacheNext ==
    \/ CallRefreshSlab
    \/ CallGetMarketConfig
    \/ CallGetEngineState
    \/ CallGetMarketInfo
    \/ CallFindUserAccount
    \/ CallGetAllPositions
    \/ ChainWrite

SpecCache == InitCache /\ [][CacheNext]_vars

TableNext == CallGetMarketInfo \/ CallFindUserAccount \/ CallGetAllPositions

SpecTable == InitTable /\ [][TableNext]_vars

BuildNext ==
    \/ BuildInitUserTx
    \/ BuildDepositTx
    \/ BuildWithdrawTx
    \/ BuildTradeCpiTx
    \/ BuildTradeNoCpiTx
    \/ BuildKeeperCrankTx
    \/ BuildCloseAccountTx
    \/ BuildInitMarketTx
    \/ BuildInitLpTx
    \/ BuildSetOracleAuthorityTx
    \/ BuildPushOraclePriceTx
    \/ BuildTopUpInsuranceTx
    \/ ChainWrite

SpecBuild == InitBuild /\ [][BuildNext]_vars

LifeNext == FetchPosition \/ HandleClose \/ ChainInitUser \/ ChainTrade

SpecLife == InitLife /\ [][LifeNext]_vars

RaceNext ==
    \/ \E p \in Callers : RaceCallRefreshSlab(p)
    \/ \E p \in Callers : RaceCallBuildDepositTx(p)
    \/ \E p \in Callers : RaceServe(p)
    \/ \E p \in Callers : RaceFetchFails(p)
    \/ \E p \in Callers : RaceArrive(p)
    \/ RaceChainWrite

SpecRace == Init /\ [][RaceNext]_vars

\* the panel's market already holds an LP
InitPanel == InitWith({}, <<1, 0, 0>>, LpTable)

PanelNext ==
    \/ CheckUserAccount
    \/ OpenWrap
    \/ OpenDeposit
    \/ OpenTrade
    \/ ChainInitUser
    \/ ChainTrade

SpecPanel == InitPanel /\ [][PanelNext]_vars

LaunchNext ==
    \/ LaunchStart
    \/ LaunchToken
    \/ LaunchCreateMarket
    \/ LaunchReturn
    \/ SagaRent
    \/ SagaBlockhash
    \/ SagaSign
    \/ SagaSubmit
    \/ SagaConfirm
    \/ SagaBuild
    \/ SagaResume
    \/ SendSteps

SpecLaunch == Init /\ [][LaunchNext]_vars

FundraiseNext ==
    \/ \E p \in Callers : CallCreateFundraise(p)
    \/ \E p \in Callers : FundraiseChecked(p)
    \/ \E p \in Callers : FundraiseInserted(p)

SpecFundraise == Init /\ [][FundraiseNext]_vars

====
